---- MODULE Spec2Model ----
(***************************************************************************)
(* Model of jc4p/monad-tv-frame: the client-side clip codec, capture modal *)
(* and grid player of src/src/main.js, and the log-cache worker of         *)
(* src/unnamed/part_002 (the revision with the historical tier).           *)
(***************************************************************************)
EXTENDS Integers, Sequences, FiniteSets, TLC

VARIABLES modal, grid, server

vars == <<modal, grid, server>>

NULL == "null"

\* a null reference to a raster or an ImageData (a real one is never empty)
NoRaster == <<>>

(***************************************************************************)
(* Bounds of the model.                                                    *)
(***************************************************************************)
\* Pixels of a raster (the program has 160 * 160).
NPix == 2
\* Frames a capture session records before the user stops it by hand.
MaxFrames == 3
\* getUserMedia requests in flight at once (clicks before the first answer).
MaxPendingGum == 2
\* Camera streams acquired in one run.
MaxStreams == 2
\* Change records of a diff handed to the serializer on its own.
MaxRecords == 2
\* one more than the cells of the largest grid
MaxOwners == 3
\* invocations of loadAndDisplayGridVideos in one run
MaxLoads == 2

(***************************************************************************)
(* Program constants of src/src/main.js.                                   *)
(***************************************************************************)
FPS == 5
RECORD_DURATION_MS == 2000
TOTAL_PIXELS == NPix
totalFramesToCapture == (RECORD_DURATION_MS \div 1000) * FPS

(***************************************************************************)
(* Small helpers.                                                          *)
(***************************************************************************)
Min(a, b) == IF a < b THEN a ELSE b
Max(a, b) == IF a > b THEN a ELSE b
Abs(a) == IF a < 0 THEN -a ELSE a

RECURSIVE SumTo(_, _)
\* s[1] + ... + s[n]
SumTo(s, n) == IF n = 0 THEN 0 ELSE SumTo(s, n - 1) + s[n]

\* bytes [from, to) of a 0-based buffer
Slice(buf, from, to) == [i \in 1..(to - from) |-> buf[from + i]]

(***************************************************************************)
(* pako.deflate / pako.inflate: a lossless byte-stream compressor.  The    *)
(* compressed stream is a header byte followed by the payload; inflate     *)
(* throws on a stream that does not start with the header.                 *)
(***************************************************************************)
Deflate(bytes) == <<120>> \o bytes

InflateOk(z) == Len(z) >= 1 /\ z[1] = 120

Inflate(z) == Tail(z)

(***************************************************************************)
(* PixelCodec: an ImageData is a sequence of <<r, g, b>> pixels.           *)
(***************************************************************************)
\* Store of a value v/3 into a Uint8ClampedArray: round to nearest.
toGrayscale(img) ==
    [i \in 1..Len(img) |->
        LET avg == (img[i][1] + img[i][2] + img[i][3] + 1) \div 3
        IN <<avg, avg, avg>>]

\* data[k] = Math.min(255, data[k] * factor), factor = num/den, stored
\* rounded to nearest into the Uint8ClampedArray.
adjustBrightness(img, num, den) ==
    [i \in 1..Len(img) |->
        [c \in 1..3 |-> Min(255, (2 * img[i][c] * num + den) \div (2 * den))]]

\* diffFrames(current, previous).diff: records in raster order
RECURSIVE DiffFrom(_, _, _)
DiffFrom(cur, prev, i) ==
    IF i > Len(cur) THEN <<>>
    ELSE IF Abs(cur[i][1] - prev[i][1]) > 5
         THEN <<[index |-> i - 1, value |-> cur[i][1]]>> \o DiffFrom(cur, prev, i + 1)
         ELSE DiffFrom(cur, prev, i + 1)

\* Mutant of diffFrames: a difference of exactly 5 is emitted too.
diffFramesFromFive(cur, prev) ==
    LET changed(i) == Abs(cur[i][1] - prev[i][1]) >= 5
        idx == SelectSeq([i \in 1..Len(cur) |-> i], changed)
    IN [k \in DOMAIN idx |-> [index |-> idx[k] - 1, value |-> cur[idx[k]][1]]]

\* Mutant of diffFrames: only a difference above 10 is emitted.
diffFramesCoarse(cur, prev) ==
    LET changed(i) == Abs(cur[i][1] - prev[i][1]) > 10
        idx == SelectSeq([i \in 1..Len(cur) |-> i], changed)
    IN [k \in DOMAIN idx |-> [index |-> idx[k] - 1, value |-> cur[idx[k]][1]]]

diffFrames(cur, prev) == DiffFrom(cur, prev, 1)

(***************************************************************************)
(* DiffSerializer.  A Uint8Array is a view [buf, off, len] on a buffer.    *)
(***************************************************************************)
U8(bytes) == [buf |-> bytes, off |-> 0, len |-> Len(bytes)]

\* uint8Array.subarray(begin, end): a view on the same buffer
Subarray(u, begin, end) ==
    LET b == Min(Max(begin, 0), u.len)
        e == Min(Max(end, b), u.len)
    IN [buf |-> u.buf, off |-> u.off + b, len |-> e - b]

\* the bytes a view shows
Bytes(u) == Slice(u.buf, u.off, u.off + u.len)

RECURSIVE SerializeFrom(_, _)
SerializeFrom(d, i) ==
    IF i > Len(d) THEN <<>>
    ELSE <<d[i].index % 256, (d[i].index \div 256) % 256, d[i].value % 256>>
         \o SerializeFrom(d, i + 1)

\* Mutant of serializeDiff: the index is written big-endian.
serializeDiffBigEndian(diffArray) ==
    U8(SerializeFrom([k \in DOMAIN diffArray |->
                         [index |-> (diffArray[k].index % 256) * 256
                                      + ((diffArray[k].index \div 256) % 256),
                          value |-> diffArray[k].value]], 1))

serializeDiff(diffArray) == U8(SerializeFrom(diffArray, 1))

\* The loop of deserializeDiff on DataView(uint8Array.buffer): the view
\* spans the whole buffer from its byte 0, the loop runs while
\* offset < uint8Array.byteLength, and a read past the buffer throws.
RECURSIVE DeserializeLoop(_, _, _)
DeserializeLoop(buf, byteLength, offset) ==
    IF offset >= byteLength THEN [ok |-> TRUE, diff |-> <<>>]
    ELSE IF offset + 3 > Len(buf) THEN [ok |-> FALSE, diff |-> <<>>]
    ELSE LET rest == DeserializeLoop(buf, byteLength, offset + 3)
             rec == [index |-> buf[offset + 1] + 256 * buf[offset + 2],
                     value |-> buf[offset + 3]]
         IN [ok |-> rest.ok, diff |-> <<rec>> \o rest.diff]

deserializeDiff(u) == DeserializeLoop(u.buf, u.len, 0)

\* for (const d of diffs) if (d.index < data.length) data[d.index] = d.value
RECURSIVE ApplyFrom(_, _, _)
ApplyFrom(data, diffs, i) ==
    IF i > Len(diffs) THEN data
    ELSE ApplyFrom(IF diffs[i].index < Len(data)
                   THEN [data EXCEPT ![diffs[i].index + 1] = diffs[i].value]
                   ELSE data,
                   diffs, i + 1)

ApplyDiff(data, diffs) == ApplyFrom(data, diffs, 1)

(***************************************************************************)
(* The camera: raw samples the video element can deliver.  A sample has    *)
(* its first n pixels lit and the others at a background level.            *)
(***************************************************************************)
Background == {<<100, 100, 100>>, <<104, 104, 104>>}

Sample(n, bg) ==
    [i \in 1..TOTAL_PIXELS |-> IF i <= n THEN <<190, 200, 210>> ELSE bg]

CameraSamples == {Sample(n, bg) : n \in 0..TOTAL_PIXELS, bg \in Background}

\* the red channel of every pixel: the grayscale raster of an ImageData
Gray(img) == [i \in 1..Len(img) |-> img[i][1]]

(***************************************************************************)
(* The capture modal of src/src/main.js: one record holds the globals      *)
(* (timers, recordedFrames, playback reference), the closure variables of  *)
(* the running timers, the buttons, the video element and the camera.      *)
(***************************************************************************)
BlankCanvas == [kind |-> "blank", raster |-> <<>>, frame |-> 0, static |-> FALSE]

ErrorCanvas == [kind |-> "error", raster |-> <<>>, frame |-> 0, static |-> FALSE]

\* frameCap, camera, maxStreams and maxGum describe the environment of a
\* run: how many frames the user lets a session record, the samples the
\* camera delivers, how many streams the camera grants and how many
\* getUserMedia requests wait at once.
ModalInit(cap, cam, streams, gum) ==
    [frameCap |-> cap,
     camera |-> cam,
     maxStreams |-> streams,
     maxGum |-> gum,
     display |-> "none",
     livePreviewInterval |-> FALSE,
     recordingInterval |-> FALSE,
     playbackInterval |-> FALSE,
     recordedFrames |-> <<>>,
     lastFrameImageData |-> NoRaster,
     reconstructedModalPlaybackFrame |-> NoRaster,
     framesCaptured |-> 0,
     currentFrameIndex |-> 0,
     wrapped |-> FALSE,
     canvas |-> BlankCanvas,
     recordDisabled |-> FALSE,
     saveDisabled |-> FALSE,
     saveShown |-> FALSE,
     srcObject |-> 0,
     liveStreams |-> {},
     acquired |-> 0,
     gumPending |-> 0,
     metaPending |-> FALSE,
     playPending |-> FALSE,
     save |-> [pc |-> "idle", payload |-> NULL, status |-> NULL, tx |-> <<>>]]

stopLivePreview(m) ==
    [m EXCEPT !.livePreviewInterval = FALSE, !.canvas = BlankCanvas]

startLivePreview(m) == [m EXCEPT !.livePreviewInterval = TRUE]

\* videoElement.srcObject.getTracks().forEach(t => t.stop()); srcObject = null
releaseSrcObject(m) ==
    IF m.srcObject = 0 THEN m
    ELSE [m EXCEPT !.liveStreams = @ \ {m.srcObject},
                   !.srcObject = 0,
                   !.metaPending = FALSE]

\* the click handler of modalPlayButton
playClick(m) ==
    LET m1 == [stopLivePreview(m) EXCEPT !.playbackInterval = FALSE]
    IN IF Len(m1.recordedFrames) = 0 THEN m1
       ELSE [m1 EXCEPT !.currentFrameIndex = 0,
                       !.wrapped = FALSE,
                       !.reconstructedModalPlaybackFrame = NoRaster,
                       !.playbackInterval = TRUE]

stopRecording(m) ==
    LET m1 == [m EXCEPT !.recordingInterval = FALSE]
    IN IF Len(m1.recordedFrames) > 0
       THEN playClick(stopLivePreview([m1 EXCEPT !.saveShown = TRUE,
                                                 !.saveDisabled = FALSE,
                                                 !.recordDisabled = FALSE]))
       ELSE LET m2 == [m1 EXCEPT !.recordDisabled = FALSE, !.saveShown = FALSE]
            IN IF m2.display = "flex" /\ ~m2.livePreviewInterval
               THEN startLivePreview(m2)
               ELSE m2

closeRecordModal(m) ==
    LET m1 == stopLivePreview([m EXCEPT !.display = "none"])
        m2 == IF m1.recordingInterval THEN stopRecording(m1) ELSE m1
    IN [m2 EXCEPT !.playbackInterval = FALSE]

(***************************************************************************)
(* reconstructAndDrawFrame(context, storedFrameData, isStaticPreview)      *)
(***************************************************************************)
\* recordedFrames.find(f => f.type === 'full')
RECURSIVE FindFull(_, _)
FindFull(frames, i) ==
    IF i > Len(frames) THEN 0
    ELSE IF frames[i].type = "full" THEN i ELSE FindFull(frames, i + 1)

\* The static-preview walk over recordedFrames up to the target frame.
\* Result kinds: "ok" (raster found), "drawn" (an error text was drawn),
\* "silent" (returned without drawing), "throw" (an exception reached the
\* catch of reconstructAndDrawFrame).
RECURSIVE StaticWalk(_, _, _, _)
StaticWalk(frames, target, i, temp) ==
    IF i > Len(frames) THEN [kind |-> "drawn", raster |-> <<>>]
    ELSE LET f == frames[i]
             step ==
                 IF f.type = "full"
                 THEN IF InflateOk(f.compressedData)
                      THEN [kind |-> "ok", raster |-> Inflate(f.compressedData)]
                      ELSE [kind |-> "throw", raster |-> <<>>]
                 ELSE IF temp = NoRaster THEN [kind |-> "drawn", raster |-> <<>>]
                 ELSE LET d == deserializeDiff(f.serializedData)
                      IN IF d.ok
                         THEN [kind |-> "ok", raster |-> ApplyDiff(temp, d.diff)]
                         ELSE [kind |-> "throw", raster |-> <<>>]
         IN IF step.kind # "ok" THEN step
            ELSE IF f.id = target.id THEN step
            ELSE StaticWalk(frames, target, i + 1, step.raster)

\* Mutant of Drawn: whatever is drawn becomes the playback reference.
DrawnUpdatesReference(m, f, raster, isStatic) ==
    [m EXCEPT !.canvas = [kind |-> "frame", raster |-> raster,
                          frame |-> f.id, static |-> isStatic],
              !.reconstructedModalPlaybackFrame = raster]

Drawn(m, f, raster, isStatic) ==
    [m EXCEPT !.canvas = [kind |-> "frame", raster |-> raster,
                          frame |-> f.id, static |-> isStatic]]

\* Mutant of playbackBase: every delta is applied to the decoded baseline.
playbackBaseAlwaysFirst(m) ==
    Inflate(m.recordedFrames[FindFull(m.recordedFrames, 1)].compressedData)

\* The base a raw_diff is applied to in dynamic playback: the running
\* reference, or the decoded first full frame when the reference is unset.
playbackBase(m) ==
    IF m.reconstructedModalPlaybackFrame # NoRaster
    THEN m.reconstructedModalPlaybackFrame
    ELSE Inflate(m.recordedFrames[FindFull(m.recordedFrames, 1)].compressedData)

reconstructAndDrawFrame(m, f, isStaticPreview) ==
    IF f.type = "full"
    THEN IF ~InflateOk(f.compressedData)
         THEN [m EXCEPT !.canvas = ErrorCanvas]
         ELSE LET px == Inflate(f.compressedData)
                  m1 == IF isStaticPreview THEN m
                        ELSE [m EXCEPT !.reconstructedModalPlaybackFrame = px]
              IN Drawn(m1, f, px, isStaticPreview)
    ELSE LET d == deserializeDiff(f.serializedData)
         IN IF ~d.ok THEN [m EXCEPT !.canvas = ErrorCanvas]
            ELSE IF isStaticPreview
            THEN LET w == StaticWalk(m.recordedFrames, f, 1, NoRaster)
                 IN CASE w.kind = "ok" -> Drawn(m, f, w.raster, TRUE)
                      [] w.kind = "silent" -> m
                      [] OTHER -> [m EXCEPT !.canvas = ErrorCanvas]
            ELSE LET ff == FindFull(m.recordedFrames, 1)
                     haveBase == m.reconstructedModalPlaybackFrame # NoRaster
                 IN IF ~haveBase /\ ff = 0
                    THEN [m EXCEPT !.canvas = ErrorCanvas]
                    ELSE IF ~haveBase /\ ~InflateOk(m.recordedFrames[ff].compressedData)
                    THEN [m EXCEPT !.canvas = ErrorCanvas]
                    ELSE LET px == ApplyDiff(playbackBase(m), d.diff)
                         IN Drawn([m EXCEPT !.reconstructedModalPlaybackFrame = px],
                                  f, px, FALSE)

(***************************************************************************)
(* Events of the capture modal.                                            *)
(***************************************************************************)
\* openRecordModalButton click: getUserMedia is requested; the button lies
\* under the modal overlay while the modal is shown.
OpenClick ==
    /\ modal.display = "none"
    /\ modal.gumPending < modal.maxGum
    /\ modal' = [modal EXCEPT !.gumPending = @ + 1]
    /\ UNCHANGED <<grid, server>>

\* getUserMedia(...).then(stream => ...)
GumResolve ==
    /\ modal.gumPending > 0
    /\ modal.acquired < modal.maxStreams
    /\ LET id == modal.acquired + 1
       IN modal' = [modal EXCEPT !.gumPending = @ - 1,
                                 !.acquired = id,
                                 !.liveStreams = @ \cup {id},
                                 !.display = "flex",
                                 !.playbackInterval = FALSE,
                                 !.recordedFrames = <<>>,
                                 !.lastFrameImageData = NoRaster,
                                 !.reconstructedModalPlaybackFrame = NoRaster,
                                 !.saveShown = FALSE,
                                 !.recordDisabled = TRUE,
                                 !.srcObject = id,
                                 !.metaPending = TRUE]
    /\ UNCHANGED <<grid, server>>

\* getUserMedia(...).catch(err => ...)
GumReject ==
    /\ modal.gumPending > 0
    /\ modal' = releaseSrcObject([modal EXCEPT !.gumPending = @ - 1,
                                               !.display = "flex",
                                               !.recordDisabled = TRUE,
                                               !.saveShown = FALSE,
                                               !.canvas = BlankCanvas])
    /\ UNCHANGED <<grid, server>>

\* videoElement.onloadedmetadata, with the video paused (play() is called)
\* or already playing
LoadedMetadata ==
    /\ modal.srcObject # 0
    /\ modal.metaPending
    /\ \E paused \in BOOLEAN :
         modal' = IF paused
                  THEN [modal EXCEPT !.metaPending = FALSE, !.playPending = TRUE]
                  ELSE [startLivePreview(modal) EXCEPT !.metaPending = FALSE,
                                                       !.recordDisabled = FALSE]
    /\ UNCHANGED <<grid, server>>

\* videoElement.play().then(...)
PlayResolved ==
    /\ modal.playPending
    /\ modal' = [startLivePreview(modal) EXCEPT !.playPending = FALSE,
                                                !.recordDisabled = FALSE]
    /\ UNCHANGED <<grid, server>>

\* videoElement.play().catch(...)
PlayRejected ==
    /\ modal.playPending
    /\ modal' = releaseSrcObject(stopLivePreview([modal EXCEPT !.playPending = FALSE]))
    /\ UNCHANGED <<grid, server>>

\* videoElement.onended: the stream went inactive (its track ended)
VideoEnded ==
    /\ modal.srcObject # 0
    /\ modal.srcObject \in modal.liveStreams
    /\ modal' = stopLivePreview([modal EXCEPT !.liveStreams = @ \ {modal.srcObject}])
    /\ UNCHANGED <<grid, server>>

\* videoElement.onerror
VideoError ==
    /\ modal.srcObject # 0
    /\ modal' = releaseSrcObject(stopLivePreview(modal))
    /\ UNCHANGED <<grid, server>>

\* closeRecordModalButton click, or a click on the overlay
CloseClick ==
    /\ modal.display = "flex"
    /\ modal' = closeRecordModal(modal)
    /\ UNCHANGED <<grid, server>>

\* the callback of livePreviewInterval
LivePreviewTick ==
    /\ modal.livePreviewInterval
    /\ \E s \in modal.camera :
         modal' = IF modal.srcObject = 0 \/ modal.metaPending
                  THEN modal
                  ELSE [modal EXCEPT !.canvas = [kind |-> "live",
                                                 raster |-> Gray(toGrayscale(s)),
                                                 frame |-> 0, static |-> FALSE]]
    /\ UNCHANGED <<grid, server>>

\* Mutant of recordClick: a new session keeps the previous session's
\* reference frame.
recordClickKeepsReference(m) ==
    IF m.recordingInterval THEN stopRecording(m)
    ELSE LET m1 == stopLivePreview(m)
             m2 == [m1 EXCEPT !.playbackInterval = FALSE, !.saveShown = FALSE]
         IN IF m2.srcObject = 0 \/ m2.srcObject \notin m2.liveStreams
            THEN m2
            ELSE [m2 EXCEPT !.recordDisabled = FALSE,
                            !.recordedFrames = <<>>,
                            !.framesCaptured = 0,
                            !.recordingInterval = TRUE]

\* modalRecordButton click
recordClick(m) ==
    IF m.recordingInterval THEN stopRecording(m)
    ELSE LET m1 == stopLivePreview(m)
             m2 == [m1 EXCEPT !.playbackInterval = FALSE, !.saveShown = FALSE]
         IN IF m2.srcObject = 0 \/ m2.srcObject \notin m2.liveStreams
            THEN m2
            ELSE [m2 EXCEPT !.recordDisabled = FALSE,
                            !.recordedFrames = <<>>,
                            !.lastFrameImageData = NoRaster,
                            !.framesCaptured = 0,
                            !.recordingInterval = TRUE]

RecordClick ==
    /\ modal.display = "flex"
    /\ ~modal.recordDisabled
    /\ modal' = recordClick(modal)
    /\ UNCHANGED <<grid, server>>

\* Mutant of captureFrame: a delta without records is not stored.
captureFrameSkipsEmptyDelta(m, s) ==
    LET imageData == adjustBrightness(toGrayscale(s), 6, 5)
        id == Len(m.recordedFrames) + 1
        ser == serializeDiff(diffFrames(imageData, m.lastFrameImageData))
    IN IF m.lastFrameImageData = NoRaster
       THEN [m EXCEPT !.recordedFrames =
                          Append(@, [type |-> "full", id |-> id,
                                     compressedData |-> Deflate(Gray(imageData)),
                                     serializedData |-> U8(<<>>),
                                     originalLength |-> 0]),
                      !.lastFrameImageData = imageData,
                      !.framesCaptured = @ + 1]
       ELSE IF ser.len = 0
       THEN [m EXCEPT !.lastFrameImageData = imageData,
                      !.framesCaptured = @ + 1]
       ELSE [m EXCEPT !.recordedFrames =
                          Append(@, [type |-> "raw_diff", id |-> id,
                                     compressedData |-> <<>>,
                                     serializedData |-> ser,
                                     originalLength |-> ser.len]),
                      !.lastFrameImageData = imageData,
                      !.framesCaptured = @ + 1]

\* one capture step of the recordingInterval callback on raw sample s
captureFrame(m, s) ==
    LET imageData == adjustBrightness(toGrayscale(s), 6, 5)
        id == Len(m.recordedFrames) + 1
        currentFrameStorage ==
            IF m.lastFrameImageData = NoRaster
            THEN [type |-> "full", id |-> id,
                  compressedData |-> Deflate(Gray(imageData)),
                  serializedData |-> U8(<<>>), originalLength |-> 0]
            ELSE LET ser == serializeDiff(diffFrames(imageData, m.lastFrameImageData))
                 IN [type |-> "raw_diff", id |-> id,
                     compressedData |-> <<>>,
                     serializedData |-> ser, originalLength |-> ser.len]
    IN [m EXCEPT !.canvas = [kind |-> "sample", raster |-> Gray(imageData),
                             frame |-> 0, static |-> FALSE],
                 !.recordedFrames = Append(@, currentFrameStorage),
                 !.lastFrameImageData = imageData,
                 !.framesCaptured = @ + 1]

\* the callback of recordingInterval
RecordingTick ==
    /\ modal.recordingInterval
    /\ \/ /\ modal.framesCaptured >= totalFramesToCapture
          /\ modal' = stopRecording(modal)
       \/ /\ modal.framesCaptured < totalFramesToCapture
          /\ modal.srcObject = 0 \/ modal.metaPending
          /\ modal' = modal
       \/ /\ modal.framesCaptured < totalFramesToCapture
          /\ ~(modal.srcObject = 0 \/ modal.metaPending)
          /\ Len(modal.recordedFrames) < modal.frameCap
          /\ \E s \in modal.camera : modal' = captureFrame(modal, s)
    /\ UNCHANGED <<grid, server>>

\* Mutant of playbackTick: a frame that cannot be reconstructed ends the
\* playback.
playbackTickStopsOnError(m) ==
    LET wrap == m.currentFrameIndex >= Len(m.recordedFrames)
        m1 == IF wrap
              THEN [m EXCEPT !.currentFrameIndex = 0,
                             !.wrapped = TRUE,
                             !.reconstructedModalPlaybackFrame = NoRaster]
              ELSE m
        r == reconstructAndDrawFrame(m1, m1.recordedFrames[m1.currentFrameIndex + 1], FALSE)
    IN IF m1.currentFrameIndex + 1 \in DOMAIN m1.recordedFrames
       THEN IF r.canvas = ErrorCanvas
            THEN [r EXCEPT !.playbackInterval = FALSE,
                           !.currentFrameIndex = @ + 1]
            ELSE [r EXCEPT !.currentFrameIndex = @ + 1]
       ELSE [m1 EXCEPT !.playbackInterval = FALSE,
                       !.recordDisabled = FALSE,
                       !.saveDisabled = FALSE]

\* the callback of playbackInterval
playbackTick(m) ==
    LET wrap == m.currentFrameIndex >= Len(m.recordedFrames)
        m1 == IF wrap
              THEN [m EXCEPT !.currentFrameIndex = 0,
                             !.wrapped = TRUE,
                             !.reconstructedModalPlaybackFrame = NoRaster]
              ELSE m
    IN IF m1.currentFrameIndex + 1 \in DOMAIN m1.recordedFrames
       THEN [reconstructAndDrawFrame(m1, m1.recordedFrames[m1.currentFrameIndex + 1], FALSE)
                EXCEPT !.currentFrameIndex = @ + 1]
       ELSE [m1 EXCEPT !.playbackInterval = FALSE,
                       !.recordDisabled = FALSE,
                       !.saveDisabled = FALSE]

PlaybackTick ==
    /\ modal.playbackInterval
    /\ modal' = playbackTick(modal)
    /\ UNCHANGED <<grid, server>>

\* reconstructAndDrawFrame(ctx, recordedFrames[k], true): a static preview of
\* one recorded frame
StaticPreview ==
    /\ modal.display = "flex"
    /\ ~modal.recordingInterval
    /\ \E k \in DOMAIN modal.recordedFrames :
         modal' = reconstructAndDrawFrame(modal, modal.recordedFrames[k], TRUE)
    /\ UNCHANGED <<grid, server>>

(***************************************************************************)
(* RemoteClipAdapter: the payload the save handler builds.                 *)
(***************************************************************************)
bytesToHex(bytes) == [hex |-> bytes]

hexToBytes(h) == h.hex

\* recordedFrames.filter(frame => frame.type === 'raw_diff')
RECURSIVE FilterRawDiff(_, _)
FilterRawDiff(frames, i) ==
    IF i > Len(frames) THEN <<>>
    ELSE IF frames[i].type = "raw_diff"
         THEN <<frames[i]>> \o FilterRawDiff(frames, i + 1)
         ELSE FilterRawDiff(frames, i + 1)

\* concatenatedRawDiffsArray.set(frame.serializedData, offset) for every
\* raw_diff frame, offset advancing by frame.originalLength
RECURSIVE ConcatRaw(_, _)
ConcatRaw(diffs, i) ==
    IF i > Len(diffs) THEN <<>>
    ELSE Bytes(diffs[i].serializedData) \o ConcatRaw(diffs, i + 1)

\* Mutant of toRemoteForm: deltas without records are left out of the
\* payload.
toRemoteFormSkipsEmpty(frames) ==
    LET diffFramesRaw == SelectSeq(FilterRawDiff(frames, 1),
                                   LAMBDA f : f.originalLength > 0)
    IN [firstFrame |-> bytesToHex(frames[FindFull(frames, 1)].compressedData),
        compressedDiffs |-> bytesToHex(Deflate(ConcatRaw(diffFramesRaw, 1))),
        diffLengths |-> [i \in 1..Len(diffFramesRaw) |-> diffFramesRaw[i].originalLength]]

toRemoteForm(frames) ==
    LET diffFramesRaw == FilterRawDiff(frames, 1)
    IN [firstFrame |-> bytesToHex(frames[FindFull(frames, 1)].compressedData),
        compressedDiffs |-> bytesToHex(Deflate(ConcatRaw(diffFramesRaw, 1))),
        diffLengths |-> [i \in 1..Len(diffFramesRaw) |-> diffFramesRaw[i].originalLength]]

\* the messages of the save handler's early returns
NoFramesText == "No recorded frames to save."

NoFirstFrameText == "Error: First frame data is missing or invalid."

\* firstFrameData is undefined, or its compressedData is (a frame object
\* without the field reads as an empty sequence)
firstFrameMissing(frames) ==
    \/ FindFull(frames, 1) = 0
    \/ frames[FindFull(frames, 1)].compressedData = <<>>

\* Mutant of saveClick: the early returns leave the buttons disabled.
saveClickLeavesDisabled(m) ==
    LET m1 == [m EXCEPT !.playbackInterval = FALSE,
                        !.recordDisabled = TRUE,
                        !.saveDisabled = TRUE]
    IN IF Len(m1.recordedFrames) = 0
       THEN [m1 EXCEPT !.save.status = NoFramesText]
       ELSE IF firstFrameMissing(m1.recordedFrames)
       THEN [m1 EXCEPT !.save.status = NoFirstFrameText]
       ELSE [m1 EXCEPT !.save = [pc |-> "pending",
                                 payload |-> toRemoteForm(m1.recordedFrames),
                                 status |-> "Processing", tx |-> <<>>]]

\* modalSaveButton click, up to its first await; save.status is the last
\* message the handler wrote, save.tx the data of the eth_sendTransaction
\* requests the handler has issued
saveClick(m) ==
    LET m1 == [m EXCEPT !.playbackInterval = FALSE,
                        !.recordDisabled = TRUE,
                        !.saveDisabled = TRUE]
        enabled == [m1 EXCEPT !.recordDisabled = FALSE, !.saveDisabled = FALSE]
    IN IF Len(m1.recordedFrames) = 0
       THEN [enabled EXCEPT !.save.status = NoFramesText]
       ELSE IF firstFrameMissing(m1.recordedFrames)
       THEN [enabled EXCEPT !.save.status = NoFirstFrameText]
       ELSE [m1 EXCEPT !.save = [pc |-> "pending",
                                 payload |-> toRemoteForm(m1.recordedFrames),
                                 status |-> "Processing", tx |-> <<>>]]

SaveClick ==
    /\ modal.display = "flex"
    /\ modal.saveShown
    /\ ~modal.saveDisabled
    /\ modal.save.pc = "idle"
    /\ modal' = saveClick(modal)
    /\ UNCHANGED <<grid, server>>

\* Mutant of SaveSend: the transaction is encoded from recordedFrames as
\* they are after the awaits.
SaveSendCurrentFrames ==
    /\ modal.save.pc = "pending"
    /\ modal' = [modal EXCEPT
                     !.save.pc = "sent",
                     !.save.tx =
                         IF modal.recordedFrames = <<>>
                         THEN <<[firstFrame |-> bytesToHex(<<>>),
                                 compressedDiffs |-> bytesToHex(Deflate(<<>>)),
                                 diffLengths |-> <<>>]>>
                         ELSE <<toRemoteForm(modal.recordedFrames)>>]
    /\ UNCHANGED <<grid, server>>

\* the handler after its FID, account and chain awaits: the chain is the
\* expected one, setFrames is encoded from the values computed at the click
\* and eth_sendTransaction is requested
SaveSend ==
    /\ modal.save.pc = "pending"
    /\ modal' = [modal EXCEPT !.save.pc = "sent",
                              !.save.tx = Append(@, modal.save.payload)]
    /\ UNCHANGED <<grid, server>>

\* Mutant of SaveFinish: a rejected transaction is requested again.
SaveFinishRetries ==
    /\ modal.save.pc \in {"pending", "sent"}
    /\ modal' = IF modal.save.pc = "sent"
                THEN [modal EXCEPT !.save.pc = "pending"]
                ELSE [modal EXCEPT !.save.pc = "idle",
                                   !.save.payload = NULL,
                                   !.save.status = NULL,
                                   !.recordDisabled = FALSE,
                                   !.saveDisabled = FALSE]
    /\ UNCHANGED <<grid, server>>

\* every exit of the save handler after its awaits re-enables the buttons:
\* before the transaction (no FID, no account, wrong chain, a failed request)
\* or after it (rejected, reverted, confirmed)
SaveFinish ==
    /\ modal.save.pc \in {"pending", "sent"}
    /\ modal' = [modal EXCEPT !.save.pc = "idle",
                              !.save.payload = NULL,
                              !.save.status = NULL,
                              !.recordDisabled = FALSE,
                              !.saveDisabled = FALSE]
    /\ UNCHANGED <<grid, server>>

ModalNext ==
    \/ OpenClick
    \/ GumResolve
    \/ GumReject
    \/ LoadedMetadata
    \/ PlayResolved
    \/ PlayRejected
    \/ VideoEnded
    \/ VideoError
    \/ CloseClick
    \/ LivePreviewTick
    \/ RecordClick
    \/ RecordingTick
    \/ PlaybackTick
    \/ StaticPreview
    \/ SaveClick
    \/ SaveFinish

\* The modal with its timers, buttons and camera: sessions record up to
\* totalFramesToCapture frames of one scene.
ModalSpecInit ==
    /\ modal = ModalInit(totalFramesToCapture, {Sample(0, <<100, 100, 100>>)},
                         MaxStreams, MaxPendingGum)
    /\ grid = NULL
    /\ server = NULL

SpecModal == ModalSpecInit /\ [][ModalNext]_vars

\* The modal with its recording timer scheduled: setInterval keeps calling the
\* callback for as long as recordingInterval is set.
SpecRecording == ModalSpecInit /\ [][ModalNext]_vars /\ WF_vars(RecordingTick)

\* The codec in the modal: one camera stream, sessions of up to MaxFrames
\* frames of varying scenes.
CodecSpecInit ==
    /\ modal = ModalInit(MaxFrames, CameraSamples, 1, 1)
    /\ grid = NULL
    /\ server = NULL

SpecCodec == CodecSpecInit /\ [][ModalNext]_vars

\* Capture sessions of one scene: the modal is opened, recorded in, played,
\* closed and opened again, one getUserMedia request at a time, each session
\* recording up to MaxFrames frames.
SessionSpecInit ==
    /\ modal = ModalInit(MaxFrames, {Sample(0, <<100, 100, 100>>)}, MaxStreams, 1)
    /\ grid = NULL
    /\ server = NULL

SpecSession == SessionSpecInit /\ [][ModalNext]_vars

\* Capture sessions in which the save handler is followed through its
\* transaction request.
TransmitNext ==
    \/ ModalNext
    \/ SaveSend

SpecTransmit == SessionSpecInit /\ [][TransmitNext]_vars

(***************************************************************************)
(* The diff serializer on its own: a list of change records is serialized, *)
(* the caller may take a subarray of the result (as the grid player does   *)
(* of the diffs blob), and the bytes are deserialized.                     *)
(***************************************************************************)
\* pixel indices below S * S <= 65535 and grayscale values of a record
DiffIndices == {0, 255, 256, 65534}

DiffValues == {0, 255}

DiffRecords == [index : DiffIndices, value : DiffValues]

ChangeLists == UNION {[1..n -> DiffRecords] : n \in 0..MaxRecords}

SerializerSpecInit ==
    /\ \E changes \in ChangeLists :
         modal = [pc |-> "start", changes |-> changes, view |-> U8(<<>>),
                  sliced |-> FALSE, result |-> [ok |-> TRUE, diff |-> <<>>]]
    /\ grid = NULL
    /\ server = NULL

Serialize ==
    /\ modal.pc = "start"
    /\ modal' = [modal EXCEPT !.pc = "serialized",
                              !.view = serializeDiff(modal.changes)]
    /\ UNCHANGED <<grid, server>>

\* blob.subarray(offset, offset + length) with any offset and length
TakeSubarray ==
    /\ modal.pc = "serialized"
    /\ ~modal.sliced
    /\ \E begin \in 0..modal.view.len :
         \E end \in begin..modal.view.len :
            /\ end - begin < modal.view.len
            /\ modal' = [modal EXCEPT !.view = Subarray(modal.view, begin, end),
                                      !.sliced = TRUE]
    /\ UNCHANGED <<grid, server>>

Deserialize ==
    /\ modal.pc = "serialized"
    /\ modal' = [modal EXCEPT !.pc = "decoded",
                              !.result = deserializeDiff(modal.view)]
    /\ UNCHANGED <<grid, server>>

SerializerNext ==
    \/ Serialize
    \/ TakeSubarray
    \/ Deserialize

SpecSerializer == SerializerSpecInit /\ [][SerializerNext]_vars

(***************************************************************************)
(* diffFrames on its own: two grayscale frames are compared.               *)
(***************************************************************************)
\* frames of the grayscale levels 100, 105, 106 and 255: 5, 6 and more apart
GrayFrames ==
    [1..TOTAL_PIXELS -> {<<v, v, v>> : v \in {100, 105, 106, 255}}]

DiffSpecInit ==
    /\ \E current \in GrayFrames, previous \in GrayFrames :
         modal = [pc |-> "start", current |-> current, previous |-> previous,
                  diff |-> <<>>]
    /\ grid = NULL
    /\ server = NULL

Diff ==
    /\ modal.pc = "start"
    /\ modal' = [modal EXCEPT !.pc = "diffed",
                              !.diff = diffFrames(modal.current, modal.previous)]
    /\ UNCHANGED <<grid, server>>

SpecDiff == DiffSpecInit /\ [][Diff]_vars

(***************************************************************************)
(* The grid player of src/src/main.js.  A player holds the remote form of  *)
(* a clip and its playback state.  Typed arrays are references: the        *)
(* current P-frame reference either is null, aliases the decoded I-frame   *)
(* ("base") or points to a buffer of its own ("own").                      *)
(***************************************************************************)
None == [set |-> FALSE, bytes |-> <<>>]

Some(bytes) == [set |-> TRUE, bytes |-> bytes]

NullRef == [ref |-> "null", bytes |-> <<>>]

GridBlank == [kind |-> "blank", raster |-> <<>>, index |-> 0, diff |-> <<>>]

\* new GridPlayerData(canvas, contractData, sender, fid, timestamp)
GridPlayerData(contractData) ==
    [firstFrameCompressed |-> contractData.firstFrame,
     allDiffsCompressedBlob |-> contractData.compressedDiffs,
     diffLengths |-> contractData.diffLengths,
     totalFrames |-> 1 + Len(contractData.diffLengths),
     currentFrameIndex |-> 0,
     wrapped |-> FALSE,
     reconstructedIBaseFrameData |-> None,
     decompressedDiffsBlob |-> None,
     currentPFramePixelData |-> NullRef,
     inflated |-> 0,
     canvas |-> GridBlank]

\* new Uint8Array(pako.inflate(hexToBytes(hex))), null when inflate throws
InflateHex(h) ==
    IF InflateOk(hexToBytes(h)) THEN Some(Inflate(hexToBytes(h))) ELSE None

\* storing the result of an inflate; inflated counts the Uint8Arrays that
\* prepareForPlayback has allocated for the player
StoreIBase(p) ==
    LET r == InflateHex(p.firstFrameCompressed)
    IN [p EXCEPT !.reconstructedIBaseFrameData = r,
                 !.inflated = IF r.set THEN @ + 1 ELSE @]

StoreDiffsBlob(p) ==
    LET r == InflateHex(p.allDiffsCompressedBlob)
    IN [p EXCEPT !.decompressedDiffsBlob = r,
                 !.inflated = IF r.set THEN @ + 1 ELSE @]

\* Mutant of prepareForPlayback: both blobs are decompressed on every call.
prepareForPlaybackAlways(p) ==
    LET p1 == StoreIBase(p)
    IN IF Len(p1.diffLengths) > 0 THEN StoreDiffsBlob(p1) ELSE p1

prepareForPlayback(p) ==
    LET p1 == IF ~p.reconstructedIBaseFrameData.set THEN StoreIBase(p) ELSE p
    IN IF ~p1.decompressedDiffsBlob.set /\ Len(p1.diffLengths) > 0
       THEN StoreDiffsBlob(p1)
       ELSE p1

\* the pixels the current P-frame reference points to
PFramePixels(p) ==
    IF p.currentPFramePixelData.ref = "base"
    THEN p.reconstructedIBaseFrameData.bytes
    ELSE p.currentPFramePixelData.bytes

\* Mutant of applyDiffToCopy: the diff is applied in place, to the buffer
\* the current P-frame reference points to.
applyDiffInPlace(p, diffArray) ==
    LET newPFrameData == ApplyDiff(PFramePixels(p), diffArray)
        shown == [p EXCEPT !.canvas = [kind |-> "frame", raster |-> newPFrameData,
                                       index |-> p.currentFrameIndex,
                                       diff |-> diffArray]]
    IN IF p.currentPFramePixelData.ref = "base"
       THEN [shown EXCEPT !.reconstructedIBaseFrameData = Some(newPFrameData)]
       ELSE [shown EXCEPT !.currentPFramePixelData =
                              [ref |-> "own", bytes |-> newPFrameData]]

\* let newPFrameData = new Uint8Array(player.currentPFramePixelData); the
\* diff is applied to the copy, which becomes the current P-frame
applyDiffToCopy(p, diffArray) ==
    LET newPFrameData == ApplyDiff(PFramePixels(p), diffArray)
    IN [p EXCEPT !.currentPFramePixelData = [ref |-> "own", bytes |-> newPFrameData],
                 !.canvas = [kind |-> "frame", raster |-> newPFrameData,
                             index |-> p.currentFrameIndex, diff |-> diffArray]]

\* the try block of renderGridVideoFrame
renderTry(p) ==
    IF p.currentFrameIndex = 0
    THEN IF ~p.reconstructedIBaseFrameData.set THEN p
         ELSE [p EXCEPT !.currentPFramePixelData = [ref |-> "base", bytes |-> <<>>],
                        !.canvas = [kind |-> "frame",
                                    raster |-> p.reconstructedIBaseFrameData.bytes,
                                    index |-> 0, diff |-> <<>>]]
    ELSE IF ~p.decompressedDiffsBlob.set \/ p.currentFrameIndex > Len(p.diffLengths)
    THEN p
    ELSE IF p.currentPFramePixelData.ref = "null" /\ ~p.reconstructedIBaseFrameData.set
    THEN p
    ELSE LET p1 == IF p.currentPFramePixelData.ref = "null"
                   THEN [p EXCEPT !.currentPFramePixelData =
                                      [ref |-> "base", bytes |-> <<>>]]
                   ELSE p
             diffIndexInArray == p.currentFrameIndex - 1
             offset == SumTo(p.diffLengths, diffIndexInArray)
             currentDiffLength == p.diffLengths[diffIndexInArray + 1]
             serializedDiff == Subarray(U8(p.decompressedDiffsBlob.bytes),
                                        offset, offset + currentDiffLength)
             d == deserializeDiff(serializedDiff)
         \* a throw enters the catch block, which reads gridWidth, a const
         \* of the try block: a ReferenceError leaves renderGridVideoFrame
         IN IF d.ok THEN applyDiffToCopy(p1, d.diff)
            ELSE [p1 EXCEPT !.canvas = [kind |-> "ReferenceError", raster |-> <<>>,
                                        index |-> p.currentFrameIndex, diff |-> <<>>]]

renderGridVideoFrame(p) ==
    LET p1 == IF ~p.reconstructedIBaseFrameData.set THEN prepareForPlayback(p) ELSE p
    IN IF ~p1.reconstructedIBaseFrameData.set
       THEN [p1 EXCEPT !.canvas = [kind |-> "I-ERR", raster |-> <<>>,
                                   index |-> p.currentFrameIndex, diff |-> <<>>]]
       ELSE LET p2 == IF Len(p1.diffLengths) > 0 /\ ~p1.decompressedDiffsBlob.set
                      THEN prepareForPlayback(p1)
                      ELSE p1
            IN IF Len(p2.diffLengths) > 0 /\ ~p2.decompressedDiffsBlob.set
               THEN [p2 EXCEPT !.canvas = [kind |-> "P-ERR", raster |-> <<>>,
                                           index |-> p.currentFrameIndex, diff |-> <<>>]]
               ELSE renderTry(p2)

\* mainAnimationLoop for a player that is due: render, then advance; an
\* exception out of the render leaves the callback before the advance
animatePlayer(p) ==
    LET r == renderGridVideoFrame(p)
    IN IF r.canvas.kind = "ReferenceError" THEN r
       ELSE [r EXCEPT
                !.currentFrameIndex = (p.currentFrameIndex + 1) % p.totalFrames,
                !.wrapped = @ \/ (p.currentFrameIndex + 1 >= p.totalFrames)]

\* one tick of mainAnimationLoop in which player i is due: a noise player
\* draws noise, a clip player is animated; the next tick is requested after
\* the players have been visited, unless an exception left the callback.
\* grid.pending counts the requested callbacks still to run, grid.masterLoopId
\* says that the variable holds a handle.
GridTick ==
    /\ grid.pending > 0
    /\ \E i \in DOMAIN grid.players :
         LET isClip == "firstFrameCompressed" \in DOMAIN grid.players[i]
             r == IF isClip THEN animatePlayer(grid.players[i])
                  ELSE grid.players[i]
             thrown == isClip /\ r.canvas.kind = "ReferenceError"
         IN grid' = [grid EXCEPT !.players[i] = r,
                                 !.pending = IF thrown THEN @ - 1 ELSE @,
                                 !.masterLoopId = IF thrown THEN @ ELSE TRUE]
    /\ UNCHANGED <<modal, server>>

\* loadAndDisplayGridVideos placing a clip: new GridPlayerData(...), then
\* prepareForPlayback()
LoadedPlayer(contractData) == prepareForPlayback(GridPlayerData(contractData))

(***************************************************************************)
(* A recorded clip played back in the modal and, saved and loaded           *)
(* unchanged, in the grid.                                                  *)
(***************************************************************************)
RECURSIVE CaptureAll(_, _, _)
CaptureAll(m, samples, i) ==
    IF i > Len(samples) THEN m
    ELSE CaptureAll(captureFrame(m, samples[i]), samples, i + 1)

\* the modal after a session that captured `samples` and was stopped
Recorded(samples) ==
    LET opened == [ModalInit(MaxFrames, CameraSamples, 1, 1) EXCEPT
                       !.display = "flex", !.acquired = 1, !.liveStreams = {1},
                       !.srcObject = 1, !.livePreviewInterval = TRUE]
    IN stopRecording(CaptureAll(recordClick(opened), samples, 1))

SampleSeqs == UNION {[1..n -> CameraSamples] : n \in 1..MaxFrames}

ClipSpecInit ==
    /\ \E samples \in SampleSeqs :
         /\ modal = Recorded(samples)
         /\ grid = [players |->
                        <<LoadedPlayer(toRemoteForm(modal.recordedFrames))>>,
                    masterLoopId |-> TRUE, pending |-> 1]
    /\ server = NULL

ClipNext ==
    \/ PlaybackTick
    \/ StaticPreview
    \/ GridTick

SpecClip == ClipSpecInit /\ [][ClipNext]_vars

(***************************************************************************)
(* Grid players built from contract data that is a saved clip or a saved   *)
(* clip with a corrupted blob; prepareForPlayback is called on them any    *)
(* number of times, between renders.                                       *)
(***************************************************************************)
Corrupt(h) == bytesToHex(<<0>> \o hexToBytes(h))

ContractForms(cd) ==
    {cd,
     [cd EXCEPT !.firstFrame = Corrupt(@)],
     [cd EXCEPT !.compressedDiffs = Corrupt(@)]}

PrepareSpecInit ==
    /\ \E samples \in SampleSeqs :
         \E cd \in ContractForms(toRemoteForm(Recorded(samples).recordedFrames)) :
            grid = [players |-> <<GridPlayerData(cd)>>, masterLoopId |-> TRUE,
                    pending |-> 1]
    /\ modal = NULL
    /\ server = NULL

\* player.prepareForPlayback()
Prepare ==
    /\ \E i \in DOMAIN grid.players :
         grid' = [grid EXCEPT !.players[i] = prepareForPlayback(@)]
    /\ UNCHANGED <<modal, server>>

PrepareNext ==
    \/ Prepare
    \/ GridTick

SpecPrepare == PrepareSpecInit /\ [][PrepareNext]_vars

(***************************************************************************)
(* The save handler on the frame lists it can be handed: none, a recorded  *)
(* clip, a clip without its full frame, a clip whose full frame has no     *)
(* data.                                                                   *)
(***************************************************************************)
\* the frame lists derived from a recorded clip
SaveFrameLists(f) ==
    {<<>>, f, Tail(f), [f EXCEPT ![1].compressedData = <<>>]}

SaveSpecInit ==
    /\ \E samples \in SampleSeqs :
         \E frames \in SaveFrameLists(Recorded(samples).recordedFrames) :
            modal = [Recorded(samples) EXCEPT !.recordedFrames = frames,
                                              !.saveShown = TRUE]
    /\ grid = NULL
    /\ server = NULL

SaveNext ==
    \/ SaveClick
    \/ SaveFinish

SpecSave == SaveSpecInit /\ [][SaveNext]_vars

(***************************************************************************)
(* reconstructAndDrawFrame on the frame lists it can be handed: a recorded *)
(* clip, the clip with a full frame that does not inflate, the clip with a *)
(* delta one byte too long; the playback timer runs and single frames are  *)
(* previewed.                                                              *)
(***************************************************************************)
PlaybackSpecInit ==
    /\ \E samples \in SampleSeqs :
         LET f == Recorded(samples).recordedFrames
         IN \E k \in DOMAIN f : \E damaged \in BOOLEAN :
               modal = [Recorded(samples) EXCEPT
                          !.recordedFrames =
                              IF ~damaged THEN f
                              ELSE IF f[k].type = "full"
                              THEN [f EXCEPT ![k].compressedData = <<0>> \o @]
                              ELSE [f EXCEPT ![k].serializedData =
                                                 U8(Bytes(@) \o <<7>>)]]
    /\ grid = NULL
    /\ server = NULL

SpecPlayback == PlaybackSpecInit /\ [][PlaybackTick \/ StaticPreview]_vars

(***************************************************************************)
(* A recording in front of a scene whose background brightens by less than *)
(* the diff threshold from one sample to the next.                         *)
(***************************************************************************)
DriftSpecInit ==
    /\ modal = recordClick(
                   [ModalInit(MaxFrames,
                              {Sample(n, <<v, v, v>>) :
                                   n \in 0..1, v \in {100, 104, 108, 112}},
                              1, 1)
                      EXCEPT !.display = "flex", !.acquired = 1,
                             !.liveStreams = {1}, !.srcObject = 1,
                             !.livePreviewInterval = TRUE])
    /\ grid = NULL
    /\ server = NULL

SpecDrift == DriftSpecInit /\ [][RecordingTick]_vars

(***************************************************************************)
(* LogCache: the /recent worker and the chain it indexes.                  *)
(***************************************************************************)
BLOCK_RANGE_LIMIT == 1000
CACHE_TTL_SECONDS == 2 * 60
INITIAL_LOOKBACK_BLOCKS == 10000
\* first block the backfill script indexes
START_BLOCK == 15592132

\* requests received in one run
MaxRequests == 2
\* RPC and KV calls that fail in one run
MaxFaults == 1
\* length of each input list of a merge
MaxLogs == 2

\* time is observed in steps of the recent tier's TTL
TickSeconds == CACHE_TTL_SECONDS

\* the sets of at most n elements of S
RECURSIVE SubsetsUpTo(_, _)
SubsetsUpTo(S, n) ==
    IF n = 0 THEN {{}}
    ELSE LET smaller == SubsetsUpTo(S, n - 1)
         IN smaller \cup {t \cup {x} : t \in smaller, x \in S}

\* a VideoClipUpdated log as getLogs returns it and JSON stores it
LogEntry(b, i, tx, ts, u) ==
    [blockNumber |-> b, logIndex |-> i, transactionHash |-> tx,
     timestamp |-> ts, user |-> u]

\* the contract's events, in chain order; those of a block are visible once
\* the head has reached it
ChainLogs ==
    <<LogEntry(START_BLOCK + 100, 0, "0xa", 1000, "u1"),
      LogEntry(START_BLOCK + 1200, 0, "0xb", 2000, "u2"),
      LogEntry(START_BLOCK + 1200, 1, "0xb", 2000, "u1"),
      LogEntry(START_BLOCK + 11000, 0, "0xc", 3000, "u2")>>

\* heights at which the chain head is observed
Heads == {START_BLOCK + 1500, START_BLOCK + 12000}

\* publicClient.getLogs({fromBlock, toBlock})
getLogs(fromBlock, toBlock) ==
    SelectSeq(ChainLogs,
              LAMBDA l : fromBlock <= l.blockNumber /\ l.blockNumber <= toBlock)

\* Mutant of Chunks: a chunk starts at the last block of the one before.
RECURSIVE ChunksOverlapping(_, _)
ChunksOverlapping(start, C) ==
    IF start > C THEN <<>>
    ELSE LET chunkToBlock == Min(start + (BLOCK_RANGE_LIMIT - 1), C)
         IN <<[fromBlock |-> start, toBlock |-> chunkToBlock]>>
            \o (IF chunkToBlock = C THEN <<>> ELSE ChunksOverlapping(chunkToBlock, C))

\* the ranges the pagination loop queries from `start` up to head C
RECURSIVE Chunks(_, _)
Chunks(start, C) ==
    IF start > C THEN <<>>
    ELSE LET chunkToBlock == Min(start + (BLOCK_RANGE_LIMIT - 1), C)
         IN <<[fromBlock |-> start, toBlock |-> chunkToBlock]>>
            \o (IF chunkToBlock = C THEN <<>> ELSE Chunks(chunkToBlock + 1, C))

\* Mutant of FetchChunks: the first failed call ends the loop.
RECURSIVE FetchChunksUntilFailure(_, _, _)
FetchChunksUntilFailure(chunks, failed, k) ==
    IF k > Len(chunks) \/ k \in failed THEN <<>>
    ELSE getLogs(chunks[k].fromBlock, chunks[k].toBlock)
         \o FetchChunksUntilFailure(chunks, failed, k + 1)

\* newLogsFetched: the logs of the chunks whose getLogs call succeeded
RECURSIVE FetchChunks(_, _, _)
FetchChunks(chunks, failed, k) ==
    IF k > Len(chunks) THEN <<>>
    ELSE (IF k \in failed THEN <<>>
          ELSE getLogs(chunks[k].fromBlock, chunks[k].toBlock))
         \o FetchChunks(chunks, failed, k + 1)

\* the comparators of the two sorts: a is placed before b.  byTimestampOnly
\* is the comparator of the early return and of the backfill script.
Before(a, b, byTimestampOnly) ==
    \/ a.timestamp > b.timestamp
    \/ /\ ~byTimestampOnly
       /\ a.timestamp = b.timestamp
       /\ \/ a.blockNumber > b.blockNumber
          \/ a.blockNumber = b.blockNumber /\ a.logIndex > b.logIndex

RECURSIVE InsertSorted(_, _, _)
InsertSorted(x, s, byTimestampOnly) ==
    IF s = <<>> THEN <<x>>
    ELSE IF Before(x, Head(s), byTimestampOnly) THEN <<x>> \o s
    ELSE <<Head(s)>> \o InsertSorted(x, Tail(s), byTimestampOnly)

\* Array.prototype.sort with the comparator: a stable sort
RECURSIVE SortLogs(_, _)
SortLogs(s, byTimestampOnly) ==
    IF s = <<>> THEN <<>>
    ELSE InsertSorted(s[Len(s)],
                      SortLogs(SubSeq(s, 1, Len(s) - 1), byTimestampOnly),
                      byTimestampOnly)

\* `${log.transactionHash}-${log.logIndex}`
logSignature(log) == <<log.transactionHash, "-", log.logIndex>>

\* the loop that keeps the first log of every signature
RECURSIVE uniqueCombinedLogs(_, _)
uniqueCombinedLogs(finalLogs, logSignatures) ==
    IF finalLogs = <<>> THEN <<>>
    ELSE LET log == Head(finalLogs)
             sig == logSignature(log)
         IN IF sig \in logSignatures
            THEN uniqueCombinedLogs(Tail(finalLogs), logSignatures)
            ELSE <<log>> \o uniqueCombinedLogs(Tail(finalLogs),
                                               logSignatures \cup {sig})

\* Mutant of mergeLogs: the sorted concatenation is returned as it is.
mergeLogsKeepAll(baseLogs, newLogsFetched, fetchPerformed) ==
    SortLogs(IF fetchPerformed /\ Len(newLogsFetched) > 0
             THEN baseLogs \o newLogsFetched ELSE baseLogs, FALSE)

\* merge, final sort and deduplication
mergeLogs(baseLogs, newLogsFetched, fetchPerformed) ==
    LET finalLogs == IF fetchPerformed /\ Len(newLogsFetched) > 0
                     THEN baseLogs \o newLogsFetched
                     ELSE baseLogs
    IN uniqueCombinedLogs(SortLogs(finalLogs, FALSE), {})

\* KV entries: the historical tier the backfill script writes and the recent
\* tier the worker writes; a stored payload always passes the worker's
\* structure test (logs is an array, the height a non-empty string)
NoHistorical == [present |-> FALSE, logs |-> <<>>, fetchedUpToBlock |-> 0]

NoRecent ==
    [present |-> FALSE, logs |-> <<>>, cachedUpToBlock |-> 0, source |-> "",
     ttl |-> 0]

\* the locals of one fetch(request, env, ctx) call, with the request's
\* method and path, the services the call has used so far ("rpc", "kv") and
\* the block ranges it has passed to getLogs
IdleRequest ==
    [pc |-> "idle", currentRpcLatestBlock |-> 0, baseLogs |-> <<>>,
     effectiveCachedUpToBlock |-> 0, cacheStatus |-> "MISS_FULL_FETCH",
     queryFromBlock |-> 0,
     method |-> "", pathname |-> "", accessed |-> {}, queried |-> <<>>]

FirstHead == CHOOSE h \in Heads : \A g \in Heads : h <= g

\* slots: calls of fetch that can be in progress at once; rpcUrl and
\* kvBound: env.ALCHEMY_MONAD_RPC_URL and env.LOG_CACHE are configured
ServerInit(slots, rpcUrl, kvBound) ==
    [rpcUrl |-> rpcUrl,
     kvBound |-> kvBound,
     head |-> FirstHead,
     faults |-> 0,
     started |-> 0,
     historical |-> NoHistorical,
     recent |-> NoRecent,
     reqs |-> [i \in 1..slots |-> IdleRequest],
     puts |-> <<>>,
     responses |-> <<>>]

\* a Response; C records the chain head the call observed, and Respond
\* adds the request it answers and what the call used
Response(status, logs, cachedUpToBlock, source, xCache, C) ==
    [status |-> status, logs |-> logs, cachedUpToBlock |-> cachedUpToBlock,
     source |-> source, xCache |-> xCache, C |-> C]

PlainResponse(status) == Response(status, <<>>, 0, "", "", 0)

Respond(s, i, resp) ==
    LET r == s.reqs[i]
        answered == resp @@ [method |-> r.method, pathname |-> r.pathname,
                             accessed |-> r.accessed, queried |-> r.queried]
    IN [s EXCEPT !.reqs[i] = IdleRequest, !.responses = Append(@, answered)]

\* cacheStatus.replace('HIT', 'HIT_SERVED')
servedStatus(cacheStatus) ==
    CASE cacheStatus = "HIT_HISTORICAL" -> "HIT_SERVED_HISTORICAL"
      [] cacheStatus = "HIT_RECENT" -> "HIT_SERVED_RECENT"
      [] OTHER -> cacheStatus

\* Mutant of afterTiers: the lookback of an initial fetch is not clamped
\* at block 0.
afterTiersUnclampedLookback(s, i) ==
    LET r == s.reqs[i]
        C == r.currentRpcLatestBlock
        eff == r.effectiveCachedUpToBlock
    IN IF eff > 0 /\ C > eff
       THEN [s EXCEPT !.reqs[i].queryFromBlock = eff + 1,
                      !.reqs[i].pc = "getLogs"]
       ELSE IF eff > 0
       THEN Respond(s, i, Response(200, SortLogs(r.baseLogs, TRUE), eff,
                                   r.cacheStatus, r.cacheStatus \o "_UPTODATE",
                                   C))
       ELSE [s EXCEPT !.reqs[i].queryFromBlock = C - (INITIAL_LOOKBACK_BLOCKS - 1),
                      !.reqs[i].baseLogs = <<>>,
                      !.reqs[i].cacheStatus = "MISS_INITIAL_FETCH",
                      !.reqs[i].pc = "getLogs"]

\* Mutant of afterTiers: a loaded base is always followed by the fetch
\* loop, from the block after its height.
afterTiersAlwaysFetch(s, i) ==
    LET r == s.reqs[i]
        C == r.currentRpcLatestBlock
        eff == r.effectiveCachedUpToBlock
    IN IF eff > 0
       THEN [s EXCEPT !.reqs[i].queryFromBlock = eff + 1,
                      !.reqs[i].pc = "getLogs"]
       ELSE [s EXCEPT !.reqs[i].queryFromBlock =
                          Max(0, C - (INITIAL_LOOKBACK_BLOCKS - 1)),
                      !.reqs[i].baseLogs = <<>>,
                      !.reqs[i].cacheStatus = "MISS_INITIAL_FETCH",
                      !.reqs[i].pc = "getLogs"]

\* step 3 of fetch: the query range chosen from the loaded caches, or the
\* response when the caches are up to date
afterTiers(s, i) ==
    LET r == s.reqs[i]
        C == r.currentRpcLatestBlock
        eff == r.effectiveCachedUpToBlock
    IN IF eff > 0 /\ C > eff
       THEN [s EXCEPT !.reqs[i].queryFromBlock = eff + 1,
                      !.reqs[i].pc = "getLogs"]
       ELSE IF eff > 0
       THEN Respond(s, i, Response(200, SortLogs(r.baseLogs, TRUE), eff,
                                   r.cacheStatus, r.cacheStatus \o "_UPTODATE",
                                   C))
       ELSE [s EXCEPT !.reqs[i].queryFromBlock =
                          Max(0, C - (INITIAL_LOOKBACK_BLOCKS - 1)),
                      !.reqs[i].baseLogs = <<>>,
                      !.reqs[i].cacheStatus = "MISS_INITIAL_FETCH",
                      !.reqs[i].pc = "getLogs"]

\* Mutant of route: the RPC URL is checked before the path.
routeConfigFirst(s, i) ==
    IF s.reqs[i].method = "OPTIONS" THEN Respond(s, i, PlainResponse(204))
    ELSE IF ~s.rpcUrl THEN Respond(s, i, PlainResponse(500))
    ELSE IF s.reqs[i].pathname # "/recent" THEN Respond(s, i, PlainResponse(404))
    ELSE [s EXCEPT !.reqs[i].pc = "getBlockNumber"]

\* fetch up to its first await: the preflight, the path and the RPC URL
route(s, i) ==
    IF s.reqs[i].method = "OPTIONS" THEN Respond(s, i, PlainResponse(204))
    ELSE IF s.reqs[i].pathname # "/recent" THEN Respond(s, i, PlainResponse(404))
    ELSE IF ~s.rpcUrl THEN Respond(s, i, PlainResponse(500))
    ELSE [s EXCEPT !.reqs[i].pc = "getBlockNumber"]

\* a request arrives
Receive ==
  \E i \in DOMAIN server.reqs :
    /\ server.reqs[i].pc = "idle"
    /\ server.started < MaxRequests
    /\ \E method \in {"GET", "OPTIONS"}, pathname \in {"/recent", "/"} :
         server' = route([server EXCEPT !.started = @ + 1,
                                        !.reqs[i].method = method,
                                        !.reqs[i].pathname = pathname], i)
    /\ UNCHANGED <<modal, grid>>

\* await publicClient.getBlockNumber(): the head, or a throw that the outer
\* catch turns into a 500
GetBlockNumber ==
  \E i \in DOMAIN server.reqs :
    /\ server.reqs[i].pc = "getBlockNumber"
    /\ \/ server' =
              LET s == [server EXCEPT
                            !.reqs[i].currentRpcLatestBlock = server.head,
                            !.reqs[i].accessed = @ \cup {"rpc"},
                            !.reqs[i].pc = "getHistorical"]
              IN IF s.kvBound THEN s ELSE afterTiers(s, i)
       \/ /\ server.faults < MaxFaults
          /\ server' = Respond([server EXCEPT !.faults = @ + 1,
                                              !.reqs[i].accessed = @ \cup {"rpc"}],
                               i, PlainResponse(500))
    /\ UNCHANGED <<modal, grid>>

\* await env.LOG_CACHE.get(HISTORICAL_CACHE_KEY): a hit, a miss, or a throw
\* that is caught
GetHistorical ==
  \E i \in DOMAIN server.reqs :
    /\ server.reqs[i].pc = "getHistorical"
    /\ \/ server' =
              IF server.historical.present
              THEN [server EXCEPT
                        !.reqs[i].baseLogs = server.historical.logs,
                        !.reqs[i].effectiveCachedUpToBlock =
                            server.historical.fetchedUpToBlock,
                        !.reqs[i].cacheStatus = "HIT_HISTORICAL",
                        !.reqs[i].accessed = @ \cup {"kv"},
                        !.reqs[i].pc = "getRecent"]
              ELSE [server EXCEPT !.reqs[i].accessed = @ \cup {"kv"},
                                  !.reqs[i].pc = "getRecent"]
       \/ /\ server.faults < MaxFaults
          /\ server' = [server EXCEPT !.faults = @ + 1,
                                      !.reqs[i].accessed = @ \cup {"kv"},
                                      !.reqs[i].pc = "getRecent"]
    /\ UNCHANGED <<modal, grid>>

\* Mutant of recentIsBase: a recent entry is the base whatever its height.
recentIsBaseWhenPresent(recentCachedResult, effectiveCachedUpToBlock) ==
    recentCachedResult.present

\* the recent entry passes the structure test and is as fresh as the base
\* loaded so far
recentIsBase(recentCachedResult, effectiveCachedUpToBlock) ==
    /\ recentCachedResult.present
    /\ recentCachedResult.cachedUpToBlock >= effectiveCachedUpToBlock

\* await env.LOG_CACHE.get(RECENT_CACHE_KEY), then step 3
GetRecent ==
  \E i \in DOMAIN server.reqs :
    /\ server.reqs[i].pc = "getRecent"
    /\ \/ server' =
              LET r == server.reqs[i]
                  \* the read of the recent tier is a use of the cache,
                  \* which the getHistorical step has recorded already
                  recentCachedResult == server.recent
                  recentCacheBlockNum == recentCachedResult.cachedUpToBlock
              IN IF recentIsBase(recentCachedResult, r.effectiveCachedUpToBlock)
                 THEN IF recentCacheBlockNum >= r.currentRpcLatestBlock
                      THEN Respond(server, i,
                               Response(200, recentCachedResult.logs,
                                        recentCacheBlockNum,
                                        recentCachedResult.source,
                                        "HIT_RECENT_UPTODATE",
                                        r.currentRpcLatestBlock))
                      ELSE afterTiers(
                               [server EXCEPT
                                    !.reqs[i].baseLogs = recentCachedResult.logs,
                                    !.reqs[i].effectiveCachedUpToBlock =
                                        recentCacheBlockNum,
                                    !.reqs[i].cacheStatus = "HIT_RECENT"], i)
                 ELSE afterTiers(server, i)
       \/ /\ server.faults < MaxFaults
          /\ server' = afterTiers([server EXCEPT !.faults = @ + 1], i)
    /\ UNCHANGED <<modal, grid>>

\* the pagination loop (a failed chunk is logged and skipped), the merge,
\* the put handed to ctx.waitUntil and the response
GetLogs ==
  \E i \in DOMAIN server.reqs :
    /\ server.reqs[i].pc = "getLogs"
    /\ LET r == server.reqs[i]
           C == r.currentRpcLatestBlock
           chunks == Chunks(r.queryFromBlock, C)
           fetchPerformed == r.queryFromBlock <= C
       IN \E failed \in SubsetsUpTo(DOMAIN chunks, MaxFaults - server.faults) :
            /\ LET newLogsFetched == FetchChunks(chunks, failed, 1)
                   logs == mergeLogs(r.baseLogs, newLogsFetched, fetchPerformed)
                   delta == r.effectiveCachedUpToBlock > 0
                   source == IF fetchPerformed
                             THEN (IF delta THEN "rpc_delta_update"
                                   ELSE "rpc_initial_fetch")
                             ELSE r.cacheStatus
                   xCache == IF fetchPerformed
                             THEN (IF delta THEN "MISS_DELTA" ELSE "MISS_INITIAL")
                             ELSE servedStatus(r.cacheStatus)
                   responsePayload ==
                       [logs |-> logs, cachedUpToBlock |-> C, source |-> source]
                   s == [server EXCEPT
                             !.faults = @ + Cardinality(failed),
                             !.reqs[i].queried = chunks,
                             !.reqs[i].accessed =
                                 @ \cup (IF Len(chunks) > 0 THEN {"rpc"} ELSE {})
                                   \cup (IF server.kvBound THEN {"kv"} ELSE {}),
                             !.puts = IF server.kvBound
                                      THEN Append(@, responsePayload) ELSE @]
               IN server' = Respond(s, i, Response(200, logs, C, source, xCache,
                                                   C))
    /\ UNCHANGED <<modal, grid>>

\* Mutant of kvPutRecent: the put also overwrites the historical tier.
kvPutBothTiers(s, payload) ==
    [s EXCEPT !.recent = [present |-> TRUE, logs |-> payload.logs,
                          cachedUpToBlock |-> payload.cachedUpToBlock,
                          source |-> payload.source,
                          ttl |-> CACHE_TTL_SECONDS],
              !.historical = [present |-> TRUE, logs |-> payload.logs,
                              fetchedUpToBlock |-> payload.cachedUpToBlock]]

\* env.LOG_CACHE.put(RECENT_CACHE_KEY, JSON.stringify(responsePayload),
\* {expirationTtl: CACHE_TTL_SECONDS}) taking effect
kvPutRecent(s, payload) ==
    [s EXCEPT !.recent = [present |-> TRUE, logs |-> payload.logs,
                          cachedUpToBlock |-> payload.cachedUpToBlock,
                          source |-> payload.source,
                          ttl |-> CACHE_TTL_SECONDS]]

\* a put handed to ctx.waitUntil completes, after the response
PutLands ==
    /\ \E k \in DOMAIN server.puts :
         server' = kvPutRecent(
                       [server EXCEPT !.puts =
                            SubSeq(@, 1, k - 1) \o SubSeq(@, k + 1, Len(@))],
                       server.puts[k])
    /\ UNCHANGED <<modal, grid>>

\* time passes; the recent entry is gone once its TTL has elapsed
Tick ==
    /\ server.recent.present
    /\ server' = [server EXCEPT
                      !.recent = IF @.ttl <= TickSeconds THEN NoRecent
                                 ELSE [@ EXCEPT !.ttl = @ - TickSeconds]]
    /\ UNCHANGED <<modal, grid>>

\* the chain grows
HeadAdvance ==
    /\ \E h \in Heads :
         /\ h > server.head
         /\ server' = [server EXCEPT !.head = h]
    /\ UNCHANGED <<modal, grid>>

\* one run of the backfill script populateHistoricalKv.js
Backfill ==
    /\ LET currentLatestBlock == server.head
           chunks == Chunks(START_BLOCK, currentLatestBlock)
       IN IF START_BLOCK >= currentLatestBlock THEN server' = server
          ELSE \E failed \in SubsetsUpTo(DOMAIN chunks,
                                         MaxFaults - server.faults) :
                 LET allHistoricalLogs == FetchChunks(chunks, failed, 1)
                     s == [server EXCEPT !.faults = @ + Cardinality(failed)]
                 IN server' =
                        IF Len(allHistoricalLogs) = 0 THEN s
                        ELSE [s EXCEPT !.historical =
                                  [present |-> TRUE,
                                   logs |-> SortLogs(allHistoricalLogs, TRUE),
                                   fetchedUpToBlock |-> currentLatestBlock]]
    /\ UNCHANGED <<modal, grid>>

ServerNext ==
    \/ Receive
    \/ GetBlockNumber
    \/ GetHistorical
    \/ GetRecent
    \/ GetLogs
    \/ PutLands
    \/ Tick
    \/ HeadAdvance
    \/ Backfill

\* one call of fetch at a time
ServerSpecInit ==
    /\ modal = NULL
    /\ grid = NULL
    /\ server = ServerInit(1, TRUE, TRUE)

SpecServer == ServerSpecInit /\ [][ServerNext]_vars

\* the worker under every configuration: with or without the RPC URL,
\* with or without the KV binding
RoutingSpecInit ==
    /\ modal = NULL
    /\ grid = NULL
    /\ \E rpcUrl \in BOOLEAN, kvBound \in BOOLEAN :
         server = ServerInit(1, rpcUrl, kvBound)

SpecRouting == RoutingSpecInit /\ [][ServerNext]_vars

\* a chain head below the lookback of an initial fetch
YoungHead == INITIAL_LOOKBACK_BLOCKS \div 4

\* the worker while the chain head stays where it is: on a young chain, or
\* on a grown one
LookbackSpecInit ==
    /\ modal = NULL
    /\ grid = NULL
    /\ \E head \in {YoungHead, FirstHead} :
         server = [ServerInit(1, TRUE, TRUE) EXCEPT !.head = head]

LookbackNext ==
    \/ Receive
    \/ GetBlockNumber
    \/ GetHistorical
    \/ GetRecent
    \/ GetLogs
    \/ PutLands
    \/ Tick
    \/ Backfill

SpecLookback == LookbackSpecInit /\ [][LookbackNext]_vars

(***************************************************************************)
(* The merge of one request applied to bounded input lists.                *)
(***************************************************************************)
MergeEntries == {ChainLogs[k] : k \in DOMAIN ChainLogs}

MergeInputs == UNION {[1..n -> MergeEntries] : n \in 0..MaxLogs}

MergeSpecInit ==
    /\ modal = NULL
    /\ grid = NULL
    /\ \E baseLogs \in MergeInputs, newLogsFetched \in MergeInputs,
          fetchPerformed \in BOOLEAN :
         /\ ~fetchPerformed => newLogsFetched = <<>>
         /\ server = [baseLogs |-> baseLogs,
                      newLogsFetched |-> newLogsFetched,
                      fetchPerformed |-> fetchPerformed,
                      merged |-> FALSE,
                      uniqueCombinedLogs |-> <<>>]

Merge ==
    /\ ~server.merged
    /\ server' = [server EXCEPT
                      !.merged = TRUE,
                      !.uniqueCombinedLogs =
                          mergeLogs(server.baseLogs, server.newLogsFetched,
                                    server.fetchPerformed)]
    /\ UNCHANGED <<modal, grid>>

SpecMerge == MergeSpecInit /\ [][Merge]_vars

(***************************************************************************)
(* The grid: setupDynamicGrid and loadAndDisplayGridVideos. Every          *)
(* invocation keeps its own queue of owners, its own contractVideosLoaded  *)
(* and totalCells; activeGridPlayers and masterLoopId are shared.          *)
(***************************************************************************)
\* Mutant of latestUpdates: a later log of a user replaces the entry.
RECURSIVE latestUpdatesLastSeen(_, _)
latestUpdatesLastSeen(sortedLogs, seen) ==
    IF sortedLogs = <<>> THEN <<>>
    ELSE LET log == Head(sortedLogs)
             oldest == CHOOSE l \in {sortedLogs[k] : k \in DOMAIN sortedLogs} :
                          /\ l.user = log.user
                          /\ \A k \in DOMAIN sortedLogs :
                                sortedLogs[k].user = log.user
                                    => l.timestamp <= sortedLogs[k].timestamp
         IN IF log.user \in seen
            THEN latestUpdatesLastSeen(Tail(sortedLogs), seen)
            ELSE <<[user |-> log.user, timestamp |-> oldest.timestamp]>>
                 \o latestUpdatesLastSeen(Tail(sortedLogs), seen \cup {log.user})

\* Array.from(latestUpdates.entries()): the first entry of every user in the
\* logs sorted newest first, in that order
RECURSIVE latestUpdates(_, _)
latestUpdates(sortedLogs, seen) ==
    IF sortedLogs = <<>> THEN <<>>
    ELSE LET log == Head(sortedLogs)
         IN IF log.user \in seen
            THEN latestUpdates(Tail(sortedLogs), seen)
            ELSE <<[user |-> log.user, timestamp |-> log.timestamp]>>
                 \o latestUpdates(Tail(sortedLogs), seen \cup {log.user})

\* no grid yet; the contract holds for every user a recorded clip, a clip
\* whose firstFrame is empty ('0x'), a clip whose firstFrame is zero bytes,
\* or a clip whose last delta is one byte too long
LoadSpecInit ==
    /\ LET clip == toRemoteForm(Recorded(<<Sample(1, <<100, 100, 100>>),
                                           Sample(0, <<100, 100, 100>>)>>).recordedFrames)
           forms == {clip,
                     [clip EXCEPT !.firstFrame = bytesToHex(<<>>)],
                     [clip EXCEPT !.firstFrame = bytesToHex(<<0, 0>>)],
                     [clip EXCEPT
                         !.compressedDiffs =
                             bytesToHex(hexToBytes(@) \o <<7>>),
                         !.diffLengths = [@ EXCEPT ![Len(@)] = @ + 1]]}
       IN \E contract \in [{ChainLogs[k].user : k \in DOMAIN ChainLogs} -> forms] :
             grid = [players |-> <<>>,
                     masterLoopId |-> FALSE,
                     pending |-> 0,
                     contract |-> contract,
                     loads |-> <<>>]
    /\ modal = NULL
    /\ server = NULL

\* Mutant of SetupGrid: the animation loop is not stopped.
SetupGridKeepsLoop ==
    /\ Len(grid.loads) < MaxLoads
    /\ \E totalCells \in 1..(MaxOwners - 1), n \in 0..Len(ChainLogs) :
         LET combinedLogs == SubSeq(ChainLogs, 1, n)
         IN grid' = [grid EXCEPT
                        !.masterLoopId = FALSE,
                        !.players = [i \in 1..totalCells |->
                                        [canvas |-> [kind |-> "noise"]]],
                        !.loads = Append(@,
                            [logs |-> combinedLogs,
                             queue |-> latestUpdates(SortLogs(combinedLogs, TRUE), {}),
                             contractVideosLoaded |-> 0,
                             totalCells |-> totalCells,
                             done |-> FALSE])]
    /\ UNCHANGED <<modal, server>>

\* setupDynamicGrid (first load, a resize, the refresh after a save) and
\* loadAndDisplayGridVideos up to the loop over the owners: the loop is
\* stopped, the grid becomes totalCells noise players, the logs of both
\* phases are combined, sorted newest first and reduced to one entry per user
SetupGrid ==
    /\ Len(grid.loads) < MaxLoads
    /\ \E totalCells \in 1..(MaxOwners - 1), n \in 0..Len(ChainLogs) :
         LET combinedLogs == SubSeq(ChainLogs, 1, n)
         IN grid' = [grid EXCEPT
                        !.masterLoopId = FALSE,
                        !.pending = IF grid.masterLoopId /\ @ > 0 THEN @ - 1 ELSE @,
                        !.players = [i \in 1..totalCells |->
                                        [canvas |-> [kind |-> "noise"]]],
                        !.loads = Append(@,
                            [logs |-> combinedLogs,
                             queue |-> latestUpdates(SortLogs(combinedLogs, TRUE), {}),
                             contractVideosLoaded |-> 0,
                             totalCells |-> totalCells,
                             done |-> FALSE])]
    /\ UNCHANGED <<modal, server>>

\* one iteration of an invocation's loop over sortedUniqueUsers: readContract
\* resolves with the owner's clip or rejects; the clip is bound to cell
\* contractVideosLoaded of the shared activeGridPlayers. A bound player
\* carries its sender, its timestamp and the invocation that bound it.
BindClip ==
    /\ \E l \in DOMAIN grid.loads : \E resolved \in BOOLEAN :
         LET load == grid.loads[l]
             owner == Head(load.queue)
             structuredClipData == grid.contract[owner.user]
             k == load.contractVideosLoaded + 1
             rest == [grid EXCEPT !.loads[l].queue = Tail(@)]
         IN /\ ~load.done
            /\ load.queue # <<>>
            /\ load.contractVideosLoaded < load.totalCells
            /\ grid' =
                 IF ~resolved THEN rest
                 ELSE IF Len(hexToBytes(structuredClipData.firstFrame)) = 0
                 THEN rest
                 ELSE IF k <= Len(grid.players)
                         /\ "firstFrameCompressed" \notin DOMAIN grid.players[k]
                 THEN [rest EXCEPT
                         !.players[k] = LoadedPlayer(structuredClipData)
                                        @@ [sender |-> owner.user,
                                            timestamp |-> owner.timestamp,
                                            load |-> l],
                         !.loads[l].contractVideosLoaded = k]
                 ELSE [rest EXCEPT !.loads[l].contractVideosLoaded = k]
    /\ UNCHANGED <<modal, server>>

\* Mutant of LoadFinish: the next tick is requested whether or not the
\* variable holds a handle.
LoadFinishAlwaysRequests ==
    /\ \E l \in DOMAIN grid.loads :
         /\ ~grid.loads[l].done
         /\ \/ grid.loads[l].queue = <<>>
            \/ grid.loads[l].contractVideosLoaded >= grid.loads[l].totalCells
         /\ grid' = [grid EXCEPT !.loads[l].done = TRUE,
                                 !.masterLoopId = TRUE,
                                 !.pending = @ + 1]
    /\ UNCHANGED <<modal, server>>

\* the end of an invocation: the loop over the owners is left and the
\* animation loop is requested if the variable holds no handle
LoadFinish ==
    /\ \E l \in DOMAIN grid.loads :
         LET start == Len(grid.players) > 0 /\ ~grid.masterLoopId
         IN /\ ~grid.loads[l].done
            /\ \/ grid.loads[l].queue = <<>>
               \/ grid.loads[l].contractVideosLoaded >= grid.loads[l].totalCells
            /\ grid' = [grid EXCEPT !.loads[l].done = TRUE,
                                    !.masterLoopId = @ \/ start,
                                    !.pending = IF start THEN @ + 1 ELSE @]
    /\ UNCHANGED <<modal, server>>

LoadNext ==
    \/ SetupGrid
    \/ BindClip
    \/ LoadFinish
    \/ GridTick

SpecLoad == LoadSpecInit /\ [][LoadNext]_vars

(***************************************************************************)
(* Claims.                                                                 *)
(***************************************************************************)
\* C1: whenever sequential playback (frames 0, 1, .., k in order from a
\* reset playback reference) has drawn frame k of the recorded sequence,
\* the raster on the canvas equals the raster a static preview of frame k
\* reconstructs.
C1_SequentialEqualsStatic ==
    (modal.playbackInterval /\ modal.canvas.kind = "frame" /\ ~modal.canvas.static)
    => LET f == modal.recordedFrames[modal.canvas.frame]
           preview == reconstructAndDrawFrame(modal, f, TRUE).canvas
       IN /\ preview.kind = "frame"
          /\ preview.raster = modal.canvas.raster

\* sequential playback shows the third frame of a clip whose two deltas lit
\* one pixel each
C1_Witness ==
    /\ modal.playbackInterval
    /\ modal.canvas.kind = "frame"
    /\ ~modal.canvas.static
    /\ modal.canvas.frame = 3
    /\ Len(deserializeDiff(modal.recordedFrames[2].serializedData).diff) = 1
    /\ Len(deserializeDiff(modal.recordedFrames[3].serializedData).diff) = 1
    /\ \A i \in 1..2 : modal.canvas.raster[i] # Inflate(modal.recordedFrames[1].compressedData)[i]

\* the records of a run of 3-byte little-endian (index, value) entries
DecodeRecords(bytes) ==
    [i \in 1..(Len(bytes) \div 3) |->
        [index |-> bytes[3 * i - 2] + 256 * bytes[3 * i - 1], value |-> bytes[3 * i]]]

\* C2: when the grid player renders frame index j >= 1, the records it
\* applies are those serialized in bytes [sum(diffLengths[0..j-2]),
\* sum(diffLengths[0..j-1])) of the decompressed diffs blob.
C2_GridDecodesOwnSlice ==
    \A i \in DOMAIN grid.players :
        LET p == grid.players[i]
            j == p.canvas.index
        IN (p.canvas.kind = "frame" /\ j >= 1)
           => p.canvas.diff =
                  DecodeRecords(Slice(p.decompressedDiffsBlob.bytes,
                                      SumTo(p.diffLengths, j - 1),
                                      SumTo(p.diffLengths, j)))

\* C3: after sequential playback has wrapped, in the modal loop and in the
\* grid loop, the raster shown for frame 0 is the first decode of frame 0,
\* and the grid's decoded baseline is never changed by applying deltas.
C3_LoopReset ==
    /\ (modal.wrapped /\ modal.canvas.kind = "frame" /\ ~modal.canvas.static
            /\ modal.canvas.frame = 1)
       => modal.canvas.raster = Inflate(modal.recordedFrames[1].compressedData)
    /\ \A i \in DOMAIN grid.players :
           LET p == grid.players[i]
               first == Inflate(hexToBytes(p.firstFrameCompressed))
           IN /\ p.reconstructedIBaseFrameData.set
                 => p.reconstructedIBaseFrameData.bytes = first
              /\ (p.canvas.kind = "frame" /\ p.canvas.index = 0)
                 => p.canvas.raster = first

\* both loops have wrapped and show frame 0 of a clip with two deltas
C3_Witness ==
    /\ modal.wrapped
    /\ modal.canvas.kind = "frame"
    /\ modal.canvas.frame = 1
    /\ Len(modal.recordedFrames) = 3
    /\ \E i \in DOMAIN grid.players :
           LET p == grid.players[i]
           IN /\ p.wrapped
              /\ p.canvas.kind = "frame"
              /\ p.canvas.index = 0
              /\ p.totalFrames = 3
              /\ p.currentPFramePixelData.ref = "base"
              /\ p.diffLengths[1] > 0

\* the entries of a log list, as a set
LogSet(logs) == {logs[k] : k \in DOMAIN logs}

\* C4: two consecutive /recent reconciliations that observed the same chain
\* head return the same set of logs and the same cachedUpToBlock.
C4_RepeatedReconcileSame ==
    \A k \in 1..(Len(server.responses) - 1) :
        LET a == server.responses[k]
            b == server.responses[k + 1]
        IN (a.status = 200 /\ b.status = 200 /\ a.C = b.C)
           => /\ LogSet(a.logs) = LogSet(b.logs)
              /\ a.cachedUpToBlock = b.cachedUpToBlock

\* C5: the merged result holds no two entries with the same
\* (transactionHash, logIndex), and holds every entry of its inputs, so an
\* entry that arrives from the base and from the fetch, or twice in one
\* input, is kept exactly once.
C5_MergedHasNoDuplicates ==
    server.merged
    => LET out == server.uniqueCombinedLogs
           input == server.baseLogs \o server.newLogsFetched
       IN /\ \A a, b \in DOMAIN out :
                 (out[a].transactionHash = out[b].transactionHash
                      /\ out[a].logIndex = out[b].logIndex) => a = b
          /\ LogSet(out) = LogSet(input)

\* a merge whose base and fetched lists share an entry, and one of whose
\* lists holds an entry twice
C5_Witness ==
    /\ server.merged
    /\ LogSet(server.baseLogs) \cap LogSet(server.newLogsFetched) # {}
    /\ Len(server.baseLogs) > Cardinality(LogSet(server.baseLogs))
    /\ Len(server.uniqueCombinedLogs) = 1

\* C6: across the successful /recent responses of a run, every entry
\* returned by one response is returned by every later one, and the
\* returned cachedUpToBlock never decreases.
C6_ServedLogOnlyExtends ==
    \A j, k \in DOMAIN server.responses :
        LET a == server.responses[j]
            b == server.responses[k]
        IN (j < k /\ a.status = 200 /\ b.status = 200)
           => /\ LogSet(a.logs) \subseteq LogSet(b.logs)
              /\ a.cachedUpToBlock <= b.cachedUpToBlock

\* a log list in the order of the final sort, without repeated signatures
SortedUnique(logs) ==
    \A a, b \in DOMAIN logs : a < b => Before(logs[a], logs[b], FALSE)

\* C7: no step of a request or of a put changes the historical tier; the
\* recent tier changes only when a put issued by a request takes effect or
\* when its TTL elapses; a request issues at most one put, in the step that
\* ends its pagination, of the sorted and deduplicated payload it responds
\* with, which holds every entry of the base it loaded; a request that ends
\* in a 500 issues no put; and no step that issues a put or fails changes a
\* tier.
C7_CacheWriteDiscipline ==
    [][/\ server'.historical # server.historical
          => /\ server'.reqs = server.reqs
             /\ server'.responses = server.responses
             /\ server'.puts = server.puts
             /\ server'.recent = server.recent
       /\ server'.recent # server.recent
          => \/ /\ server'.recent = NoRecent
                /\ server'.puts = server.puts
                /\ server'.reqs = server.reqs
             \/ /\ Len(server'.puts) = Len(server.puts) - 1
                /\ \E k \in DOMAIN server.puts :
                      /\ server'.recent.logs = server.puts[k].logs
                      /\ server'.recent.cachedUpToBlock =
                             server.puts[k].cachedUpToBlock
       /\ Len(server'.puts) > Len(server.puts)
          => /\ Len(server'.puts) = Len(server.puts) + 1
             /\ server'.recent = server.recent
             /\ server'.historical = server.historical
             /\ Len(server'.responses) = Len(server.responses) + 1
             /\ LET p == server'.puts[Len(server'.puts)]
                    resp == server'.responses[Len(server'.responses)]
                IN /\ resp.status = 200
                   /\ p.logs = resp.logs
                   /\ SortedUnique(p.logs)
                   /\ \E i \in DOMAIN server.reqs :
                         /\ server.reqs[i].pc = "getLogs"
                         /\ server'.reqs[i].pc = "idle"
                         /\ LogSet(server.reqs[i].baseLogs) \subseteq LogSet(p.logs)
       /\ (Len(server'.responses) > Len(server.responses)
              /\ server'.responses[Len(server'.responses)].status = 500)
          => /\ server'.puts = server.puts
             /\ server'.recent = server.recent
             /\ server'.historical = server.historical
      ]_vars

\* the getLogs call of the chunk holding the first event failed in a request,
\* and the put of that request has taken effect
C7_Witness ==
    /\ server.faults = 1
    /\ server.recent.present
    /\ \E k \in DOMAIN server.responses :
          /\ server.responses[k].status = 200
          /\ server.responses[k].source = "rpc_initial_fetch"
          /\ server.responses[k].logs = server.recent.logs
          /\ LogSet(server.responses[k].logs) = {ChainLogs[2], ChainLogs[3]}

\* C8: in every reachable state of the capture modal at most one of the
\* live-preview, recording and playback timers is active.
C8_AtMostOneTimer ==
    /\ ~(modal.livePreviewInterval /\ modal.recordingInterval)
    /\ ~(modal.livePreviewInterval /\ modal.playbackInterval)
    /\ ~(modal.recordingInterval /\ modal.playbackInterval)

\* C9: while the modal is closed (closeRecordModal has run and the modal has
\* not been shown again) no live-preview, recording or playback timer is
\* active.
C9_NoTimerWhileClosed ==
    modal.display = "none"
    => /\ ~modal.livePreviewInterval
       /\ ~modal.recordingInterval
       /\ ~modal.playbackInterval

\* C10: while the modal is closed no acquired camera stream has live
\* tracks.
C10_CameraReleasedWhileClosed ==
    modal.display = "none" => modal.liveStreams = {}

\* C11: in every reachable state recordedFrames is empty, or holds exactly
\* one 'full' frame, at index 0, followed only by 'raw_diff' frames.
C11_BaselineThenDeltas ==
    \/ modal.recordedFrames = <<>>
    \/ /\ modal.recordedFrames[1].type = "full"
       /\ \A k \in 2..Len(modal.recordedFrames) :
            modal.recordedFrames[k].type = "raw_diff"

\* a second session has recorded a baseline and a delta after an earlier
\* session's clip was played and the modal was closed and opened again
C11_Witness ==
    /\ modal.acquired = 2
    /\ modal.recordingInterval
    /\ Len(modal.recordedFrames) >= 2
    /\ modal.recordedFrames[2].type = "raw_diff"

\* the payload decodes into as many frames as the frame list holds
CompleteClip(payload, frames) ==
    /\ payload = toRemoteForm(frames)
    /\ InflateOk(hexToBytes(payload.firstFrame))
    /\ Len(Inflate(hexToBytes(payload.firstFrame))) = TOTAL_PIXELS
    /\ InflateOk(hexToBytes(payload.compressedDiffs))
    /\ 1 + Len(payload.diffLengths) = Len(frames)
    /\ Len(Inflate(hexToBytes(payload.compressedDiffs)))
           = SumTo(payload.diffLengths, Len(payload.diffLengths))
    /\ \A k \in DOMAIN payload.diffLengths : payload.diffLengths[k] % 3 = 0

\* C12: a save click prepares a transaction only for a clip with a
\* Baseline, and the payload is the whole clip; on an empty frame list or
\* one without a full frame with data it writes an error message, prepares
\* no transaction and leaves the record and save buttons enabled.
C12_SaveOnlyCompleteClip ==
    LET frames == modal.recordedFrames
        rejected == frames = <<>> \/ firstFrameMissing(frames)
    IN /\ modal.save.pc = "pending" =>
            ~rejected /\ CompleteClip(modal.save.payload, frames)
       /\ modal.save.status \in {NoFramesText, NoFirstFrameText} =>
            /\ rejected
            /\ modal.save.pc = "idle"
            /\ modal.save.payload = NULL
            /\ ~modal.recordDisabled
            /\ ~modal.saveDisabled
       /\ rejected => modal.save.status \in {NULL, NoFramesText, NoFirstFrameText}
       /\ modal.save.status = NoFramesText <=> (frames = <<>> /\ modal.save.status # NULL)

\* save was clicked on a clip of deltas only and reported the error
C12_Witness ==
    /\ modal.recordedFrames # <<>>
    /\ FindFull(modal.recordedFrames, 1) = 0
    /\ modal.save.status = NoFirstFrameText
    /\ ~modal.playbackInterval

\* C13: deserializeDiff(serializeDiff(changes)) is changes, record for
\* record, and the serialized buffer holds 3 bytes per record: the index
\* little-endian in two bytes, then the value byte, with no header.
C13_RoundTrip ==
    (modal.pc # "start" /\ ~modal.sliced) =>
        /\ modal.view.off = 0
        /\ modal.view.len = 3 * Len(modal.changes)
        /\ Len(modal.view.buf) = 3 * Len(modal.changes)
        /\ \A k \in DOMAIN modal.changes :
              /\ modal.view.buf[3 * k - 2] = modal.changes[k].index % 256
              /\ modal.view.buf[3 * k - 1] = modal.changes[k].index \div 256
              /\ modal.view.buf[3 * k] = modal.changes[k].value
        /\ modal.pc = "decoded" =>
              modal.result.ok /\ modal.result.diff = modal.changes

\* two records, one with an index above 255, went through the round trip
C13_Witness ==
    /\ modal.pc = "decoded"
    /\ ~modal.sliced
    /\ Len(modal.changes) = 2
    /\ modal.changes[1].index = 65534
    /\ modal.changes[2].index = 255
    /\ modal.result.diff = modal.changes

\* C15: deserializeDiff raises an error on every input whose byte length is
\* not a multiple of 3, a subarray of a larger buffer included; on a length
\* that is a multiple of 3 it decodes length / 3 records.
C15_RejectsMalformedLength ==
    modal.pc = "decoded" =>
        IF modal.view.len % 3 # 0
        THEN ~modal.result.ok
        ELSE modal.result.ok /\ Len(modal.result.diff) = modal.view.len \div 3

\* C14: diffFrames(a, b) returns exactly the pixel indices i with
\* |a[i] - b[i]| > 5 (a difference of exactly 5 is left out), each once, in
\* ascending raster order, each with a's value at that index.
C14_DiffIsExactlyChangedPixels ==
    modal.pc = "diffed" =>
        LET a == Gray(modal.current)
            b == Gray(modal.previous)
            P == {i \in 0..(TOTAL_PIXELS - 1) : Abs(a[i + 1] - b[i + 1]) > 5}
            d == modal.diff
        IN /\ {d[k].index : k \in DOMAIN d} = P
           /\ Len(d) = Cardinality(P)
           /\ \A k \in 1..(Len(d) - 1) : d[k].index < d[k + 1].index
           /\ \A k \in DOMAIN d : d[k].value = a[d[k].index + 1]

\* the first pixel differs by exactly 5, the last by 6 downwards: only the
\* last is emitted
C14_Witness ==
    /\ modal.pc = "diffed"
    /\ modal.current[1][1] = 105
    /\ modal.previous[1][1] = 100
    /\ modal.current[TOTAL_PIXELS][1] = 100
    /\ modal.previous[TOTAL_PIXELS][1] = 106
    /\ modal.diff = <<[index |-> TOTAL_PIXELS - 1, value |-> 100]>>

\* both blobs of the player that need decompressing are decompressed
Prepared(p) ==
    /\ p.reconstructedIBaseFrameData.set
    /\ Len(p.diffLengths) > 0 => p.decompressedDiffsBlob.set

\* C16: prepareForPlayback is idempotent: a blob that a call has
\* decompressed is never decompressed again or replaced, a call on a
\* prepared player changes nothing, and two calls in a row leave the
\* player as one call does.
C16_PrepareIdempotent ==
    [][\A i \in DOMAIN grid.players :
         LET p == grid.players[i]
             q == grid'.players[i]
         IN /\ p.reconstructedIBaseFrameData.set =>
                 q.reconstructedIBaseFrameData = p.reconstructedIBaseFrameData
            /\ p.decompressedDiffsBlob.set =>
                 q.decompressedDiffsBlob = p.decompressedDiffsBlob
            /\ Prepared(p) => q.inflated = p.inflated
            /\ Prepared(p) => prepareForPlayback(p) = p
            /\ prepareForPlayback(prepareForPlayback(p)) = prepareForPlayback(p)
            /\ q.inflated <= 2]_vars

\* a prepared player with deltas has been played past its first delta
C16_Witness ==
    \E i \in DOMAIN grid.players :
        /\ Prepared(grid.players[i])
        /\ grid.players[i].inflated = 2
        /\ grid.players[i].currentFrameIndex = 2
        /\ grid.players[i].canvas.kind = "frame"

\* C17: an OPTIONS request is answered 204 whatever its path; otherwise a
\* path other than /recent is answered 404 whatever the configuration;
\* otherwise a missing RPC URL is answered 500; in the three cases the call
\* uses neither the cache nor the RPC provider.
C17_Routing ==
    /\ \A k \in DOMAIN server.responses :
         LET resp == server.responses[k]
             unused == resp.accessed = {} /\ resp.queried = <<>>
         IN /\ resp.method = "OPTIONS" => resp.status = 204 /\ unused
            /\ (resp.method # "OPTIONS" /\ resp.pathname # "/recent") =>
                  resp.status = 404 /\ unused
            /\ (resp.method # "OPTIONS" /\ resp.pathname = "/recent"
                   /\ ~server.rpcUrl) =>
                  resp.status = 500 /\ unused
    /\ \A i \in DOMAIN server.reqs :
         server.reqs[i].pc # "idle" =>
             /\ server.reqs[i].method # "OPTIONS"
             /\ server.reqs[i].pathname = "/recent"
             /\ server.rpcUrl
    /\ ~server.rpcUrl => server.puts = <<>> /\ server.recent = NoRecent

\* without an RPC URL, a GET of another path was answered 404 and a GET of
\* /recent 500
C17_Witness ==
    /\ ~server.rpcUrl
    /\ Len(server.responses) = 2
    /\ server.responses[1].method = "GET"
    /\ server.responses[1].pathname = "/"
    /\ server.responses[1].status = 404
    /\ server.responses[2].method = "GET"
    /\ server.responses[2].pathname = "/recent"
    /\ server.responses[2].status = 500

\* C18: the base of a request is the recent tier if and only if the recent
\* tier is present with a covered height R >= H, where H is the height of
\* the historical tier the request loaded (0 when it loaded none);
\* otherwise it is the historical tier when the request loaded one;
\* otherwise it is empty.  A KV read that throws loads nothing.
C18_BaseSelection ==
    [][\A i \in DOMAIN server.reqs :
         LET r == server.reqs[i]
             q == server'.reqs[i]
             read == server'.faults = server.faults
         IN /\ (r.pc = "getHistorical" /\ q.pc = "getRecent") =>
                 LET loaded == read /\ server.historical.present
                 IN /\ q.baseLogs = IF loaded THEN server.historical.logs ELSE <<>>
                    /\ q.effectiveCachedUpToBlock =
                           IF loaded THEN server.historical.fetchedUpToBlock ELSE 0
            /\ (r.pc = "getRecent" /\ q.pc # "getRecent") =>
                 LET H == r.effectiveCachedUpToBlock
                     R == server.recent.cachedUpToBlock
                     useRecent == read /\ server.recent.present /\ R >= H
                     base == IF useRecent
                             THEN [logs |-> server.recent.logs, height |-> R,
                                   status |-> "HIT_RECENT"]
                             ELSE IF H > 0
                             THEN [logs |-> r.baseLogs, height |-> H,
                                   status |-> "HIT_HISTORICAL"]
                             ELSE [logs |-> <<>>, height |-> 0,
                                   status |-> "MISS_INITIAL_FETCH"]
                 IN IF q.pc = "getLogs"
                    THEN /\ q.baseLogs = base.logs
                         /\ q.effectiveCachedUpToBlock = base.height
                         /\ q.cacheStatus = base.status
                    ELSE LET resp == server'.responses[Len(server'.responses)]
                         IN /\ Len(server'.responses) = Len(server.responses) + 1
                            /\ LogSet(resp.logs) = LogSet(base.logs)
                            /\ resp.cachedUpToBlock = base.height
                            /\ base.height >= r.currentRpcLatestBlock]_vars

\* a request found both tiers, the recent one as high as the historical
\* one, and goes on to fetch the delta on top of the recent entries
C18_Witness ==
    \E i \in DOMAIN server.reqs :
        /\ server.reqs[i].pc = "getLogs"
        /\ server.reqs[i].cacheStatus = "HIT_RECENT"
        /\ server.historical.present
        /\ server.recent.present
        /\ server.historical.logs # <<>>
        /\ server.reqs[i].baseLogs = server.recent.logs
        /\ server.recent.cachedUpToBlock = server.historical.fetchedUpToBlock

\* the base a request in its read of the recent tier chooses: the recent
\* tier when the read succeeds and finds it at least as high as the
\* historical base loaded before, else that historical base, else nothing
ChosenBase(r, recent, read) ==
    IF read /\ recent.present /\ recent.cachedUpToBlock >= r.effectiveCachedUpToBlock
    THEN [logs |-> recent.logs, height |-> recent.cachedUpToBlock]
    ELSE [logs |-> r.baseLogs, height |-> r.effectiveCachedUpToBlock]

SamePermutation(a, b) ==
    /\ Len(a) = Len(b)
    /\ \A e \in LogSet(a) \cup LogSet(b) :
          Cardinality({k \in DOMAIN a : a[k] = e})
              = Cardinality({k \in DOMAIN b : b[k] = e})

NewestFirst(logs) ==
    \A k \in 1..(Len(logs) - 1) : logs[k].timestamp >= logs[k + 1].timestamp

\* C19: when the covered height of the chosen base is >= the chain head C,
\* the request makes no getLogs call and returns the entries of the base,
\* sorted newest first, with the covered height of the base.
C19_UpToDateBaseServed ==
    [][\A i \in DOMAIN server.reqs :
         LET r == server.reqs[i]
             q == server'.reqs[i]
             base == ChosenBase(r, server.recent, server'.faults = server.faults)
         IN (/\ r.pc = "getRecent"
             /\ q.pc # "getRecent"
             /\ base.height > 0
             /\ base.height >= r.currentRpcLatestBlock) =>
                /\ q.pc = "idle"
                /\ Len(server'.responses) = Len(server.responses) + 1
                /\ LET resp == server'.responses[Len(server'.responses)]
                   IN /\ resp.status = 200
                      /\ resp.queried = <<>>
                      /\ SamePermutation(resp.logs, base.logs)
                      /\ NewestFirst(resp.logs)
                      /\ resp.cachedUpToBlock = base.height]_vars

\* a request was served the recent entry, which covers the head, without a
\* getLogs call
C19_Witness ==
    /\ Len(server.responses) = 2
    /\ server.responses[2].xCache = "HIT_RECENT_UPTODATE"
    /\ server.responses[2].queried = <<>>
    /\ Len(server.responses[2].logs) = 3
    /\ server.responses[2].cachedUpToBlock = server.responses[2].C

\* C20: when a base with covered height h < C exists, the getLogs calls of
\* the request cover exactly the blocks h + 1 .. C, in consecutive ascending
\* ranges of at most 1000 blocks that do not overlap: no block <= h, no
\* block > C, no block twice; and the paging loop ends (the request is
\* answered).
C20_DeltaPartition ==
    [][\A i \in DOMAIN server.reqs :
         LET r == server.reqs[i]
             h == r.effectiveCachedUpToBlock
             C == r.currentRpcLatestBlock
         IN (r.pc = "getLogs" /\ server'.reqs[i].pc # "getLogs" /\ h > 0) =>
                /\ h < C
                /\ server'.reqs[i].pc = "idle"
                /\ Len(server'.responses) = Len(server.responses) + 1
                /\ LET queried == server'.responses[Len(server'.responses)].queried
                       n == Len(queried)
                   IN /\ n >= 1
                      /\ queried[1].fromBlock = h + 1
                      /\ queried[n].toBlock = C
                      /\ \A k \in 1..n :
                            /\ queried[k].fromBlock <= queried[k].toBlock
                            /\ queried[k].toBlock - queried[k].fromBlock + 1
                                   <= BLOCK_RANGE_LIMIT
                      /\ \A k \in 1..(n - 1) :
                            queried[k + 1].fromBlock = queried[k].toBlock + 1]_vars

\* a delta update on top of a base was answered after several getLogs
\* calls, the last for a range shorter than the limit
C20_Witness ==
    /\ server.responses # <<>>
    /\ LET resp == server.responses[Len(server.responses)]
       IN /\ resp.source = "rpc_delta_update"
          /\ Len(resp.queried) >= 3
          /\ resp.queried[Len(resp.queried)].toBlock
               - resp.queried[Len(resp.queried)].fromBlock + 1 < BLOCK_RANGE_LIMIT

\* the events of the chain in the blocks of a range
EventsIn(range) ==
    {ChainLogs[k] : k \in {j \in DOMAIN ChainLogs :
                              /\ range.fromBlock <= ChainLogs[j].blockNumber
                              /\ ChainLogs[j].blockNumber <= range.toBlock}}

\* C21: failed getLogs calls for chunks do not abort the request: the
\* calls of the request are still the whole pagination from its first
\* queried block to the head, each range once (a failed one is not
\* repeated), and the response is a 200 whose logs are the base events
\* merged with the events of the chunks that succeeded, as many chunks
\* missing as calls failed.
C21_ChunkFailureSkipped ==
    [][\A i \in DOMAIN server.reqs :
         LET r == server.reqs[i]
             failures == server'.faults - server.faults
         IN (r.pc = "getLogs" /\ server'.reqs[i].pc # "getLogs" /\ failures > 0) =>
                /\ Len(server'.responses) = Len(server.responses) + 1
                /\ LET resp == server'.responses[Len(server'.responses)]
                       n == Len(resp.queried)
                   IN /\ resp.status = 200
                      /\ n >= failures
                      /\ resp.queried[1].fromBlock = r.queryFromBlock
                      /\ resp.queried[n].toBlock = r.currentRpcLatestBlock
                      /\ \A k \in 1..(n - 1) :
                            resp.queried[k + 1].fromBlock
                                = resp.queried[k].toBlock + 1
                      /\ \E failed \in SubsetsUpTo(1..n, failures) :
                            /\ Cardinality(failed) = failures
                            /\ LogSet(resp.logs)
                                  = LogSet(r.baseLogs)
                                    \cup UNION {EventsIn(resp.queried[k]) :
                                                   k \in (1..n) \ failed}
                      /\ Len(resp.logs) = Cardinality(LogSet(resp.logs))]_vars

\* an initial fetch in which the call for a chunk with events failed: the
\* response lacks these events and lists the events of a later chunk
C21_Witness ==
    /\ server.faults > 0
    /\ server.responses # <<>>
    /\ LET resp == server.responses[Len(server.responses)]
       IN /\ resp.status = 200
          /\ resp.source = "rpc_initial_fetch"
          /\ \E k \in DOMAIN resp.queried :
                /\ EventsIn(resp.queried[k]) # {}
                /\ EventsIn(resp.queried[k]) \cap LogSet(resp.logs) = {}
                /\ \E j \in (k + 1)..Len(resp.queried) :
                      /\ EventsIn(resp.queried[j]) # {}
                      /\ EventsIn(resp.queried[j]) \subseteq LogSet(resp.logs)

\* C22: when neither tier gives the request a base (absent, or its read
\* threw), the request starts from no events and queries exactly the blocks
\* max(0, C - 9999) .. C; it answers 200 whether zero, one or both tiers
\* are present.
C22_InitialLookback ==
    [][\A i \in DOMAIN server.reqs :
         LET r == server.reqs[i]
             C == r.currentRpcLatestBlock
             first == IF C - 9999 > 0 THEN C - 9999 ELSE 0
         IN (r.pc = "getLogs" /\ server'.reqs[i].pc # "getLogs"
                /\ r.effectiveCachedUpToBlock = 0) =>
                /\ r.baseLogs = <<>>
                /\ Len(server'.responses) = Len(server.responses) + 1
                /\ LET resp == server'.responses[Len(server'.responses)]
                       n == Len(resp.queried)
                   IN /\ resp.status = 200
                      /\ resp.source = "rpc_initial_fetch"
                      /\ n >= 1
                      /\ resp.queried[1].fromBlock = first
                      /\ resp.queried[n].toBlock = C
                      /\ \A k \in 1..(n - 1) :
                            resp.queried[k + 1].fromBlock
                                = resp.queried[k].toBlock + 1
                      /\ LogSet(resp.logs) \subseteq EventsIn([fromBlock |-> first,
                                                                toBlock |-> C])
                      /\ server'.faults = server.faults =>
                            LogSet(resp.logs) = EventsIn([fromBlock |-> first,
                                                          toBlock |-> C])]_vars

\* on a chain younger than the lookback, an initial fetch queried the
\* blocks from 0 to the head
C22_Witness ==
    /\ server.responses # <<>>
    /\ LET resp == server.responses[Len(server.responses)]
       IN /\ resp.status = 200
          /\ resp.source = "rpc_initial_fetch"
          /\ resp.C = YoungHead
          /\ resp.queried[1].fromBlock = 0
          /\ Len(resp.queried) >= 2
          /\ resp.queried[Len(resp.queried)].toBlock = YoungHead

\* C23: every 200 response of /recent lists its logs in descending order
\* of timestamp, then block number, then log index, on every path.
C23_ResponsesFullySorted ==
    \A k \in DOMAIN server.responses :
        LET resp == server.responses[k]
        IN (resp.status = 200 /\ resp.pathname = "/recent") =>
               \A j \in 1..(Len(resp.logs) - 1) :
                   ~Before(resp.logs[j + 1], resp.logs[j], FALSE)

\* C24: the covered height a 200 response reports never exceeds the chain
\* head the request observed: a tier height above the head is clamped to
\* the head.
C24_CoveredHeightClamped ==
    \A k \in DOMAIN server.responses :
        server.responses[k].status = 200 =>
            server.responses[k].cachedUpToBlock <= server.responses[k].C
\* C25: once recording has started and its timer keeps ticking, recording
\* stops (by itself after totalFramesToCapture captured frames, or earlier by
\* a manual stop), and recordedFrames never holds more than
\* totalFramesToCapture frames.
C25_RecordingTerminates ==
    /\ [](Len(modal.recordedFrames) <= totalFramesToCapture)
    /\ (modal.recordingInterval ~> ~modal.recordingInterval)

\* C26: a capture step taken when recordedFrames already holds a frame
\* appends exactly one raw_diff frame, the delta from the previous reference
\* to the new post-brightness sample, whatever its length, and makes that
\* sample the previous-frame reference.
C26_DeltaEveryStep ==
    [][(/\ modal.recordingInterval
        /\ Len(modal.recordedFrames) > 0
        /\ modal'.framesCaptured = modal.framesCaptured + 1)
       => LET n == Len(modal.recordedFrames)
          IN /\ Len(modal'.recordedFrames) = n + 1
             /\ SubSeq(modal'.recordedFrames, 1, n) = modal.recordedFrames
             /\ modal'.recordedFrames[n + 1].type = "raw_diff"
             /\ \E s \in modal.camera :
                  LET sample == adjustBrightness(toGrayscale(s), 6, 5)
                  IN /\ modal'.lastFrameImageData = sample
                     /\ deserializeDiff(modal'.recordedFrames[n + 1].serializedData).diff
                            = diffFrames(sample, modal.lastFrameImageData)]_vars

\* a recording whose latest frame is a delta without records, stored after
\* a delta with records
C26_Witness ==
    /\ modal.recordingInterval
    /\ Len(modal.recordedFrames) >= 3
    /\ modal.recordedFrames[Len(modal.recordedFrames)].type = "raw_diff"
    /\ modal.recordedFrames[Len(modal.recordedFrames)].originalLength = 0
    /\ modal.recordedFrames[Len(modal.recordedFrames) - 1].originalLength > 0

\* C27: in the payload save builds, firstFrame is the baseline's compressed
\* bytes; diffLengths has one entry per raw_diff frame in capture order, the
\* byte length of that delta's serialized data (3 per record); the buffer
\* that is compressed is the deltas concatenated in capture order, delta i
\* lying at offset sum(diffLengths[0..i-1]) of a buffer sum(diffLengths)
\* long; and a loader's frame count, 1 + diffLengths.length, is the number of
\* captured frames.
C27_PayloadStructure ==
    modal.save.pc = "pending" =>
        LET frames == modal.recordedFrames
            payload == modal.save.payload
            lengths == payload.diffLengths
            blob == Inflate(hexToBytes(payload.compressedDiffs))
        IN /\ frames[1].type = "full"
           /\ hexToBytes(payload.firstFrame) = frames[1].compressedData
           /\ 1 + Len(lengths) = Len(frames)
           /\ GridPlayerData(payload).totalFrames = Len(frames)
           /\ InflateOk(hexToBytes(payload.compressedDiffs))
           /\ Len(blob) = SumTo(lengths, Len(lengths))
           /\ \A i \in DOMAIN lengths :
                 LET delta == frames[i + 1]
                     offset == SumTo(lengths, i - 1)
                 IN /\ delta.type = "raw_diff"
                    /\ lengths[i] = delta.serializedData.len
                    /\ lengths[i] = 3 * Len(deserializeDiff(delta.serializedData).diff)
                    /\ Slice(blob, offset, offset + lengths[i])
                           = Bytes(delta.serializedData)

\* a payload of three frames whose second delta starts behind a first delta
\* with records
C27_Witness ==
    /\ modal.save.pc = "pending"
    /\ Len(modal.save.payload.diffLengths) >= 2
    /\ modal.save.payload.diffLengths[1] > 0
    /\ modal.save.payload.diffLengths[2] > 0

\* C28: the clip a save transmits is recordedFrames as they stood at the
\* click: the payload is built from them at the click, stays as it is while
\* the handler awaits, whatever happens to recordedFrames meanwhile, and is
\* what the transaction carries.
C28_TransmitsClipAtClick ==
    [][/\ (modal.save.pc = "idle" /\ modal'.save.pc = "pending")
           => modal'.save.payload = toRemoteForm(modal.recordedFrames)
       /\ (modal.save.pc = "pending" /\ modal'.save.pc # "idle")
           => modal'.save.payload = modal.save.payload
       /\ (modal.save.pc = "pending" /\ modal'.save.pc = "sent")
           => modal'.save.tx = <<modal.save.payload>>]_vars

\* a transaction was requested after the modal was reopened and another clip
\* recorded during the handler's awaits
C28_Witness ==
    /\ modal.save.pc = "sent"
    /\ modal.recordedFrames # <<>>
    /\ modal.save.tx # <<toRemoteForm(modal.recordedFrames)>>

\* C29: a save click requests at most one transaction and nothing requests
\* one but a click: the handler starts by a click on the enabled save button,
\* requests a transaction only while it has requested none, and after the
\* request it only ends.
C29_NoAutomaticRetry ==
    [][/\ (modal'.save.pc = "pending" /\ modal.save.pc # "pending")
           => /\ modal.save.pc = "idle"
              /\ modal.display = "flex"
              /\ modal.saveShown
              /\ ~modal.saveDisabled
              /\ modal'.save.tx = <<>>
       /\ (modal'.save.pc = "sent" /\ modal.save.pc # "sent")
           => modal.save.pc = "pending" /\ modal.save.tx = <<>>
       /\ modal.save.pc = "sent" => modal'.save.pc \in {"sent", "idle"}
       /\ Len(modal'.save.tx) <= 1
       /\ modal'.save.tx # modal.save.tx
           => modal.save.pc \in {"idle", "pending"}]_vars

\* the handler has ended after its transaction request and the save button
\* is enabled again
C29_Witness ==
    /\ modal.save.pc = "idle"
    /\ modal.save.tx # <<>>
    /\ modal.saveShown
    /\ ~modal.saveDisabled

\* C30: a remote clip whose firstFrame is empty or holds only zero bytes is
\* treated as absent: no grid cell is bound to it and it uses up no cell.
C30_InvalidClipAbsent ==
    /\ \A i \in DOMAIN grid.players :
          "firstFrameCompressed" \in DOMAIN grid.players[i] =>
              \E j \in DOMAIN hexToBytes(grid.players[i].firstFrameCompressed) :
                  hexToBytes(grid.players[i].firstFrameCompressed)[j] # 0
    /\ Len(grid.loads) = 1 =>
          grid.loads[1].contractVideosLoaded =
              Cardinality({i \in DOMAIN grid.players :
                              "firstFrameCompressed" \in DOMAIN grid.players[i]})

\* C31: after one loadAndDisplayGridVideos(N) run has completed, cells
\* 0..m-1 (m <= N) hold clips of m distinct owners in descending order of
\* each owner's latest event timestamp, every owner with the greatest
\* timestamp among its events, and all other cells are noise.
C31_NewestOwnersPrefix ==
    (Len(grid.loads) = 1 /\ grid.loads[1].done) =>
        LET logs == grid.loads[1].logs
            clips == {i \in DOMAIN grid.players :
                         "firstFrameCompressed" \in DOMAIN grid.players[i]}
        IN /\ Len(grid.players) = grid.loads[1].totalCells
           /\ clips = 1..Cardinality(clips)
           /\ \A i \in clips : \A j \in clips :
                 i < j => /\ grid.players[i].sender # grid.players[j].sender
                          /\ grid.players[i].timestamp >= grid.players[j].timestamp
           /\ \A i \in clips :
                 /\ \E k \in DOMAIN logs :
                       /\ logs[k].user = grid.players[i].sender
                       /\ logs[k].timestamp = grid.players[i].timestamp
                 /\ \A k \in DOMAIN logs :
                       logs[k].user = grid.players[i].sender
                           => logs[k].timestamp <= grid.players[i].timestamp

\* a completed run that filled two cells from logs holding an older event
\* of the first cell's owner
C31_Witness ==
    /\ Len(grid.loads) = 1
    /\ grid.loads[1].done
    /\ Len(grid.players) = 2
    /\ \A i \in DOMAIN grid.players :
          "firstFrameCompressed" \in DOMAIN grid.players[i]
    /\ grid.players[1].timestamp > grid.players[2].timestamp
    /\ \E k \in DOMAIN grid.loads[1].logs :
          /\ grid.loads[1].logs[k].user = grid.players[1].sender
          /\ grid.loads[1].logs[k].timestamp < grid.players[1].timestamp

\* C32: a playback tick whose frame cannot be reconstructed (the full frame
\* does not inflate, the delta is malformed) shows the error indicator,
\* leaves the playback timer active and moves on to the next frame index.
C32_PlaybackSurvivesBadFrame ==
    [][(modal.playbackInterval /\ modal' = playbackTick(modal))
       => LET k == IF modal.currentFrameIndex >= Len(modal.recordedFrames)
                   THEN 1 ELSE modal.currentFrameIndex + 1
              f == modal.recordedFrames[k]
              bad == IF f.type = "full" THEN ~InflateOk(f.compressedData)
                     ELSE ~deserializeDiff(f.serializedData).ok
          IN /\ modal'.playbackInterval
             /\ modal'.currentFrameIndex = k
             /\ modal'.recordedFrames = modal.recordedFrames
             /\ bad => modal'.canvas = ErrorCanvas]_vars

\* playback runs, the frame of the last tick was a damaged one and the
\* error indicator is shown
C32_Witness ==
    /\ modal.playbackInterval
    /\ modal.canvas = ErrorCanvas
    /\ modal.currentFrameIndex \in DOMAIN modal.recordedFrames
    /\ modal.currentFrameIndex < Len(modal.recordedFrames)
    /\ LET f == modal.recordedFrames[modal.currentFrameIndex]
       IN IF f.type = "full" THEN ~InflateOk(f.compressedData)
          ELSE ~deserializeDiff(f.serializedData).ok

\* C34: a static preview of any recorded frame changes nothing but the
\* canvas, on success and on every error path: the sequential-playback
\* reference, the frame index and the frames stay as they are, so the
\* playback that continues draws what it would have drawn.
C34_StaticPreviewKeepsReference ==
    \A k \in DOMAIN modal.recordedFrames :
       LET shown == reconstructAndDrawFrame(modal, modal.recordedFrames[k], TRUE)
       IN /\ shown = [modal EXCEPT !.canvas = shown.canvas]
          /\ modal.playbackInterval => playbackTick(shown) = playbackTick(modal)

\* during playback a frame other than the one playback has reached is shown
\* as a static preview
C34_Witness ==
    /\ modal.playbackInterval
    /\ modal.canvas.kind = "frame"
    /\ modal.canvas.static
    /\ modal.reconstructedModalPlaybackFrame # NoRaster
    /\ modal.canvas.raster # modal.reconstructedModalPlaybackFrame

\* C33: a tick that renders a clip cell never lets an error out of
\* renderGridVideoFrame: whatever the clip's data, the cell's frame index
\* advances by one modulo totalFrames and the next tick of the loop stays
\* requested.
C33_GridTickSurvivesCodecError ==
    [][\A i \in DOMAIN grid.players :
          (/\ grid.pending > 0
           /\ "firstFrameCompressed" \in DOMAIN grid.players[i]
           /\ Len(grid'.players) = Len(grid.players)
           /\ grid'.loads = grid.loads
           /\ grid'.players[i] # grid.players[i])
          => /\ grid'.players[i].currentFrameIndex
                  = (grid.players[i].currentFrameIndex + 1)
                        % grid.players[i].totalFrames
             /\ grid'.pending > 0]_vars

\* C35: across setups, loads and ticks at most one tick of the animation
\* loop is requested at a time; a clip cell's frame index lies in
\* 0..totalFrames-1, and every tick in which the cell is due and rendered
\* moves it on by one modulo totalFrames.
C35_SingleTickAndIndexStep ==
    [][/\ grid.pending <= 1
       /\ grid'.pending <= 1
       /\ \A i \in DOMAIN grid.players :
             "firstFrameCompressed" \in DOMAIN grid.players[i]
             => /\ grid.players[i].currentFrameIndex
                      \in 0..(grid.players[i].totalFrames - 1)
                /\ (/\ Len(grid'.players) = Len(grid.players)
                    /\ grid'.loads = grid.loads
                    /\ grid'.players[i].canvas # grid.players[i].canvas)
                   => grid'.players[i].currentFrameIndex
                        = (grid.players[i].currentFrameIndex + 1)
                              % grid.players[i].totalFrames]_vars

\* C36: a recording saved in the remote form and loaded unchanged into a
\* grid player shows, for every frame index k, the raster that local
\* sequential playback of the recording shows for frame k.
C36_RemoteEqualsLocal ==
    \A i \in DOMAIN grid.players :
        LET p == grid.players[i]
        IN (/\ p.canvas.kind = "frame"
            /\ modal.canvas.kind = "frame"
            /\ ~modal.canvas.static
            /\ p.canvas.index + 1 \in DOMAIN modal.recordedFrames
            /\ modal.canvas.frame = modal.recordedFrames[p.canvas.index + 1].id)
           => p.canvas.raster = modal.canvas.raster

\* C37: a request that fetched from the chain and handed its payload to the
\* recent tier with covered height C stores every contract event of every
\* block from its first queried block to C.
C37_StoredHeightCovered ==
    \A k \in DOMAIN server.responses :
        LET resp == server.responses[k]
        IN (resp.status = 200 /\ "kv" \in resp.accessed
            /\ Len(resp.queried) > 0)
           => EventsIn([fromBlock |-> resp.queried[1].fromBlock,
                        toBlock |-> resp.cachedUpToBlock])
                 \subseteq {resp.logs[j] : j \in DOMAIN resp.logs}

\* C38: whatever the order in which requests read the head and the tiers
\* and their writes take effect, the covered height of the recent entry
\* does not decrease while the entry is present, and the entry is the
\* payload of one request.
C38_RecentHeightMonotonic ==
    [][server'.recent.present
       => /\ server.recent.present
               => server'.recent.cachedUpToBlock >= server.recent.cachedUpToBlock
          /\ \E k \in DOMAIN server'.responses :
                LET resp == server'.responses[k]
                IN /\ resp.status = 200
                   /\ resp.logs = server'.recent.logs
                   /\ resp.cachedUpToBlock = server'.recent.cachedUpToBlock
                   /\ resp.source = server'.recent.source]_vars

\* C39: when a load is started while an earlier one still awaits results,
\* no clip of the earlier invocation is ever in the new grid; once the
\* newest invocation has finished, the clip cells are a prefix of the grid,
\* each owner is in at most one cell, and the clips are in descending
\* timestamp order.
C39_OverlappingLoads ==
    LET clips == {i \in DOMAIN grid.players :
                     "firstFrameCompressed" \in DOMAIN grid.players[i]}
        newest == Len(grid.loads)
    IN /\ \A i \in clips : grid.players[i].load = newest
       /\ (newest > 0 /\ grid.loads[newest].done)
          => /\ clips = 1..Cardinality(clips)
             /\ \A i, j \in clips :
                   i < j => /\ grid.players[i].sender # grid.players[j].sender
                            /\ grid.players[i].timestamp
                                  >= grid.players[j].timestamp

\* C40: while a sequence is captured, the reconstruction of the frame
\* captured last (frame k) equals the captured sample at every pixel that has
\* a record in delta k, and differs from it by at most 5*k at every other
\* pixel.
C40_ReconstructionErrorBound ==
    (modal.recordingInterval /\ Len(modal.recordedFrames) > 0)
    => LET n == Len(modal.recordedFrames)
           f == modal.recordedFrames[n]
           shown == reconstructAndDrawFrame(modal, f, TRUE).canvas
           sample == Gray(modal.lastFrameImageData)
           recorded == IF f.type = "full" THEN {}
                       ELSE LET d == deserializeDiff(f.serializedData).diff
                            IN {d[j].index + 1 : j \in DOMAIN d}
       IN /\ shown.kind = "frame"
          /\ \A i \in DOMAIN sample :
                /\ i \in recorded => shown.raster[i] = sample[i]
                /\ Abs(shown.raster[i] - sample[i]) <= 5 * (n - 1)

\* the third frame of a recording: one pixel has a record in its delta, the
\* other has drifted by more than the threshold without ever having one
C40_Witness ==
    /\ modal.recordingInterval
    /\ Len(modal.recordedFrames) = 3
    /\ LET f == modal.recordedFrames[3]
           d == deserializeDiff(f.serializedData).diff
           shown == reconstructAndDrawFrame(modal, f, TRUE).canvas
           sample == Gray(modal.lastFrameImageData)
       IN /\ Len(d) = 1
          /\ d[1].index = 0
          /\ shown.raster[1] = sample[1]
          /\ Abs(shown.raster[TOTAL_PIXELS] - sample[TOTAL_PIXELS]) > 5

====
